---- MODULE Spec2Model ----
(***************************************************************************)
(* Aviation weather decoder of MetarMap: the report classifier             *)
(* (src/src/utils/metarParser.ts) and the forecast decoder                 *)
(* (src/src/utils/tafParser.ts).                                           *)
(*                                                                         *)
(* Text is a sequence of characters, so that the regular expressions of    *)
(* the source are matched character by character.  A character is a        *)
(* one-character string; one that cannot be written in a string of a       *)
(* module is written as its code point, "U+0308".                          *)
(* A JavaScript number is a record [t |-> "number", v |-> n]; visibility   *)
(* is held in thousandths of a statute mile (rounded down, but never to    *)
(* zero for a positive value), which is exact for every test the code      *)
(* makes on it: zero/non-zero and the whole-mile thresholds.  Ceilings are *)
(* whole feet.                                                             *)
(***************************************************************************)
EXTENDS Integers, Sequences, FiniteSets, TLC

VARIABLES pc, metar, fcst, visibilityMi, ceilingFt, category, taf, now, periods,
          groupText, issueTime, resolved

\* the weather service: the airports asked for, the answers to the two HTTP requests,
\* and the calls of fetchMETARs in the order they were made, each with the promise it
\* returned
VARIABLES airports, metarResponse, tafResponse, promises

\* the App component: the wall clock, the React state, the ref, the asynchronous calls
\* in flight, the instant the interval timer is due, the handler that ran last and the
\* instant the last manual refresh began a fetch
VARIABLES clock, app, lastRefreshTimeRef, calls, timer, event, lastManualStart

serviceVars == <<airports, metarResponse, tafResponse, promises>>

appVars == <<clock, app, lastRefreshTimeRef, calls, timer, event, lastManualStart>>

vars == <<pc, metar, fcst, visibilityMi, ceilingFt, category, taf, now, periods,
          groupText, issueTime, resolved, serviceVars, appVars>>

----------------------------------------------------------------------------
(* JavaScript values *)

Undefined == [t |-> "undefined"]
NaN == [t |-> "NaN"]
Infinity == [t |-> "Infinity"]
Unassigned == [t |-> "unassigned"]
Num(n) == [t |-> "number", v |-> n]
Null == <<"null">>

IsNum(x) == x.t = "number"
\* !x for a number-or-undefined value
Falsy(x) == x = Undefined \/ x = NaN \/ (IsNum(x) /\ x.v = 0)
\* x < k and x >= k for a finite k; every comparison with NaN or undefined is false
Lt(x, k) == IsNum(x) /\ x.v < k
Ge(x, k) == x = Infinity \/ (IsNum(x) /\ x.v >= k)
Gt(x, k) == x = Infinity \/ (IsNum(x) /\ x.v > k)

Max(a, b) == IF a >= b THEN a ELSE b
MinOf(S) == CHOOSE x \in S : \A y \in S : x <= y

\* whole miles in thousandths
Miles(n) == n * 1000

\* x * 0.000621371 for x in thousandths (of a metre), in thousandths of a mile
MetersToMiles(x) ==
  LET w == x \div 1000
      r == x % 1000
      t == (r * 621371) \div 1000
  IN  IF x = 0 THEN 0
      ELSE Max(1, (w * 621 + (w * 371 + t) \div 1000) \div 1000)

\* A Number that is finite and not negative, as the engine holds it (IEEE 754
\* binary64): [i, f] is its integer part and the bits of its fraction, 53
\* significant bits at most between them.
Double(i, f) == [i |-> i, f |-> f]

\* the number of bits of a natural number
RECURSIVE BitLength(_)
BitLength(i) == IF i = 0 THEN 0 ELSE 1 + BitLength(i \div 2)

\* A fraction below one that is yet to be rounded: r / d, the decimal fraction
\* with the given digits, or the fraction with the given bits.
Ratio(r, d) == [kind |-> "ratio", r |-> r, d |-> d]
Decimal(digits) == [kind |-> "decimal", digits |-> digits]
Bits(bits) == [kind |-> "bits", bits |-> bits]

IsZero(x) ==
  IF x.kind = "ratio" THEN x.r = 0
  ELSE IF x.kind = "decimal" THEN \A k \in DOMAIN x.digits : x.digits[k] = 0
  ELSE \A k \in DOMAIN x.bits : x.bits[k] = 0

\* m times the fraction written by the digits from index k on, in base b: the
\* digits of the fraction of the product, and the carry into its integer part
Carried(t, b, rest) ==
  [carry |-> (t + rest.carry) \div b, digits |-> <<(t + rest.carry) % b>> \o rest.digits]
RECURSIVE TimesFrom(_, _, _, _)
TimesFrom(m, digits, b, k) ==
  IF k > Len(digits) THEN [carry |-> 0, digits |-> <<>>]
  ELSE Carried(m * digits[k], b, TimesFrom(m, digits, b, k + 1))
Times(m, digits, b) == TimesFrom(m, digits, b, 1)

\* Bits are handled eight at a time: the eight bits of a number below 256, and
\* the number written by the k-th eight bits of a sequence (zeros past its end)
BitsOf(q) == [k \in 1..8 |-> (q \div 2^(8 - k)) % 2]
BitAt(bits, k) == IF k <= Len(bits) THEN bits[k] ELSE 0
Limb(bits, k) ==
  128 * BitAt(bits, 8 * k - 7) + 64 * BitAt(bits, 8 * k - 6) + 32 * BitAt(bits, 8 * k - 5)
    + 16 * BitAt(bits, 8 * k - 4) + 8 * BitAt(bits, 8 * k - 3) + 4 * BitAt(bits, 8 * k - 2)
    + 2 * BitAt(bits, 8 * k - 1) + BitAt(bits, 8 * k)
Limbs(bits) == [k \in 1..((Len(bits) + 7) \div 8) |-> Limb(bits, k)]
BitsOfLimbs(limbs) ==
  [k \in 1..(8 * Len(limbs)) |-> BitsOf(limbs[(k + 7) \div 8])[((k - 1) % 8) + 1]]

\* the index of the first 1 of a sequence of bits, 0 when there is none
FirstOne(bits) ==
  IF \A k \in DOMAIN bits : bits[k] = 0 THEN 0
  ELSE CHOOSE k \in DOMAIN bits : bits[k] = 1 /\ \A j \in 1..(k - 1) : bits[j] = 0

\* the first eight bits of the binary expansion of a fraction, and the fraction
\* after them
ChunkOf(q, rest) == [bits |-> BitsOf(q), rest |-> rest]
DecimalChunk(p) == ChunkOf(p.carry, Decimal(p.digits))
Chunk(x) ==
  IF x.kind = "ratio" THEN ChunkOf((x.r * 256) \div x.d, Ratio((x.r * 256) % x.d, x.d))
  ELSE IF x.kind = "decimal" THEN DecimalChunk(Times(256, x.digits, 10))
  ELSE ChunkOf(Limb(x.bits, 1), Bits(SubSeq(x.bits, 9, Len(x.bits))))

\* the significant bits among eight: a bit is significant from the first 1 of the
\* number on
Significant(bits, started) ==
  IF started THEN 8 ELSE IF FirstOne(bits) = 0 THEN 0 ELSE 9 - FirstOne(bits)

\* The binary expansion of a fraction, until it holds `need` significant bits or
\* ends: the bits, and the fraction they leave.
RECURSIVE Expansion(_, _, _)
Prepended(bits, e) == [bits |-> bits \o e.bits, rest |-> e.rest]
ExpansionAfter(c, need, started, significant) ==
  Prepended(c.bits, Expansion(c.rest, need - significant, started \/ significant > 0))
ExpansionFrom(c, need, started) ==
  ExpansionAfter(c, need, started, Significant(c.bits, started))
Expansion(x, need, started) ==
  IF need <= 0 \/ IsZero(x) THEN [bits |-> <<>>, rest |-> x]
  ELSE ExpansionFrom(Chunk(x), need, started)

\* one unit in the last place more
Increment(i, f) ==
  IF \A k \in DOMAIN f : f[k] = 1 THEN Double(i + 1, <<>>)
  ELSE Double(i, SubSeq(f, 1, (CHOOSE k \in DOMAIN f :
                                 f[k] = 0 /\ \A j \in (k + 1)..Len(f) : f[j] = 1) - 1)
                   \o <<1>>)

\* the index of the 54th significant bit of i + 0.bits, 0 when the number is zero
GuardIndex(i, bits, need) ==
  IF i > 0 THEN need
  ELSE IF FirstOne(bits) = 0 THEN 0
  ELSE FirstOne(bits) + need - 1

\* An expansion rounded to nearest, ties to even: the bits before index cut are
\* kept, and the bit at cut and what follows it decide the rounding.
Rounded(i, e, cut) ==
  IF cut = 0 \/ Len(e.bits) < cut THEN Double(i, e.bits)
  ELSE IF /\ e.bits[cut] = 1
          /\ \/ \E k \in (cut + 1)..Len(e.bits) : e.bits[k] = 1
             \/ ~IsZero(e.rest)
             \/ (IF cut > 1 THEN e.bits[cut - 1] ELSE i % 2) = 1
       THEN Increment(i, SubSeq(e.bits, 1, cut - 1))
  ELSE Double(i, SubSeq(e.bits, 1, cut - 1))

\* The double nearest to i + x: 53 significant bits are kept.
NearestIn(i, e, need) == Rounded(i, e, GuardIndex(i, e.bits, need))
NearestWith(i, x, need) == NearestIn(i, Expansion(x, need, i > 0), need)
Nearest(i, x) == NearestWith(i, x, 54 - BitLength(i))

\* n / d and whole + x in doubles
Quotient(n, d) == Nearest(n \div d, Ratio(n % d, d))
Sum(whole, x) == Nearest(whole + x.i, Bits(x.f))

\* A visibility is held in whole thousandths of a mile: Math.floor(x * 1000), the
\* product made in doubles, and 1 for a positive value below one thousandth.
Product(i, p) == Nearest(1000 * i + p.carry, Bits(BitsOfLimbs(p.digits)))
AtLeastOne(v, x) == IF v = 0 /\ ~IsZero(Bits(x.f)) THEN 1 ELSE v
Thousandths(x) == AtLeastOne(Product(x.i, Times(1000, Limbs(x.f), 256)).i, x)

\* n / d in thousandths; x/0 is Infinity and 0/0 is NaN
Divide(n, d) ==
  IF d = 0 THEN (IF n = 0 THEN NaN ELSE Infinity)
  ELSE Num(Thousandths(Quotient(n, d)))

\* whole + n / d in thousandths: the quotient is rounded to a double, then the sum
Plus(whole, n, d) ==
  IF d = 0 THEN (IF n = 0 THEN NaN ELSE Infinity)
  ELSE Num(Thousandths(Sum(whole, Quotient(n, d))))

----------------------------------------------------------------------------
(* Characters and strings *)

DigitChars == <<"0", "1", "2", "3", "4", "5", "6", "7", "8", "9">>
UpperChars == <<"A", "B", "C", "D", "E", "F", "G", "H", "I", "J", "K", "L", "M",
                "N", "O", "P", "Q", "R", "S", "T", "U", "V", "W", "X", "Y", "Z">>
LowerChars == <<"a", "b", "c", "d", "e", "f", "g", "h", "i", "j", "k", "l", "m",
                "n", "o", "p", "q", "r", "s", "t", "u", "v", "w", "x", "y", "z">>

Range(f) == {f[i] : i \in DOMAIN f}

IsDigit(c) == c \in Range(DigitChars)
\* \w
IsWordChar(c) == IsDigit(c) \/ c \in Range(UpperChars) \/ c \in Range(LowerChars) \/ c = "_"
\* the characters of \s: space, tab, line feed, vertical tab, form feed, carriage
\* return, no-break space, ogham space mark, the spaces U+2000 to U+200A, line and
\* paragraph separator, narrow no-break space, medium mathematical space,
\* ideographic space and byte order mark
WhiteSpace == {" ", "\t", "\n", "", "\f", "\r", " ", " ", "﻿",
               "U+2000", "U+2001", "U+2002", "U+2003", "U+2004", "U+2005", "U+2006", "U+2007",
               "U+2008", "U+2009", "U+200A", "U+2028", "U+2029", "U+202F", "U+205F", "U+3000"}
\* \s
IsSpace(c) == c \in WhiteSpace

DigitVal(c) == (CHOOSE i \in DOMAIN DigitChars : DigitChars[i] = c) - 1

\* String.prototype.toUpperCase beyond a-z (Unicode 17): the letters with one
\* upper-case character, row for row with their upper-case forms, and the letters
\* with several (SpecialCasing of the Unicode standard)
LowerLetters == <<"µ", "à", "á", "â", "ã", "ä", "å", "æ", "ç", "è",
                   "é", "ê", "ë", "ì", "í", "î", "ï", "ð", "ñ", "ò",
                   "ó", "ô", "õ", "ö", "ø", "ù", "ú", "û", "ü", "ý",
                   "þ", "ÿ", "U+0101", "U+0103", "U+0105", "U+0107", "U+0109", "U+010B", "U+010D", "U+010F",
                   "U+0111", "U+0113", "U+0115", "U+0117", "U+0119", "U+011B", "U+011D", "U+011F", "U+0121", "U+0123",
                   "U+0125", "U+0127", "U+0129", "U+012B", "U+012D", "U+012F", "U+0131", "U+0133", "U+0135", "U+0137",
                   "U+013A", "U+013C", "U+013E", "U+0140", "U+0142", "U+0144", "U+0146", "U+0148", "U+014B", "U+014D",
                   "U+014F", "U+0151", "U+0153", "U+0155", "U+0157", "U+0159", "U+015B", "U+015D", "U+015F", "U+0161",
                   "U+0163", "U+0165", "U+0167", "U+0169", "U+016B", "U+016D", "U+016F", "U+0171", "U+0173", "U+0175",
                   "U+0177", "U+017A", "U+017C", "U+017E", "U+017F", "ƀ", "ƃ", "ƅ", "ƈ", "ƌ",
                   "ƒ", "ƕ", "ƙ", "ƚ", "ƛ", "ƞ", "ơ", "ƣ", "ƥ", "ƨ",
                   "ƭ", "ư", "ƴ", "ƶ", "ƹ", "ƽ", "ƿ", "ǅ", "ǆ", "ǈ",
                   "ǉ", "ǋ", "ǌ", "ǎ", "ǐ", "ǒ", "ǔ", "ǖ", "ǘ", "ǚ",
                   "ǜ", "ǝ", "ǟ", "ǡ", "ǣ", "ǥ", "ǧ", "ǩ", "ǫ", "ǭ",
                   "ǯ", "ǲ", "ǳ", "ǵ", "ǹ", "ǻ", "ǽ", "ǿ", "U+0201", "U+0203",
                   "U+0205", "U+0207", "U+0209", "U+020B", "U+020D", "U+020F", "U+0211", "U+0213", "U+0215", "U+0217",
                   "U+0219", "U+021B", "U+021D", "U+021F", "U+0223", "U+0225", "U+0227", "U+0229", "U+022B", "U+022D",
                   "U+022F", "U+0231", "U+0233", "U+023C", "U+023F", "U+0240", "U+0242", "U+0247", "U+0249", "U+024B",
                   "U+024D", "U+024F", "U+0250", "U+0251", "U+0252", "U+0253", "U+0254", "U+0256", "U+0257", "U+0259",
                   "U+025B", "U+025C", "U+0260", "U+0261", "U+0263", "U+0264", "U+0265", "U+0266", "U+0268", "U+0269",
                   "U+026A", "U+026B", "U+026C", "U+026F", "U+0271", "U+0272", "U+0275", "U+027D", "ʀ", "ʂ",
                   "ʃ", "ʇ", "ʈ", "ʉ", "ʊ", "ʋ", "ʌ", "ʒ", "ʝ", "ʞ",
                   "U+0345", "U+0371", "U+0373", "U+0377", "U+037B", "U+037C", "U+037D", "ά", "έ", "ή",
                   "ί", "α", "β", "γ", "δ", "ε", "ζ", "η", "θ", "ι",
                   "κ", "λ", "μ", "ν", "ξ", "ο", "π", "ρ", "ς", "σ",
                   "τ", "υ", "φ", "χ", "ψ", "ω", "ϊ", "ϋ", "ό", "ύ",
                   "ώ", "ϐ", "ϑ", "ϕ", "ϖ", "ϗ", "ϙ", "ϛ", "ϝ", "ϟ",
                   "ϡ", "ϣ", "ϥ", "ϧ", "ϩ", "ϫ", "ϭ", "ϯ", "ϰ", "ϱ",
                   "ϲ", "ϳ", "ϵ", "ϸ", "ϻ", "U+0430", "U+0431", "U+0432", "U+0433", "U+0434",
                   "U+0435", "U+0436", "U+0437", "U+0438", "U+0439", "U+043A", "U+043B", "U+043C", "U+043D", "U+043E",
                   "U+043F", "U+0440", "U+0441", "U+0442", "U+0443", "U+0444", "U+0445", "U+0446", "U+0447", "U+0448",
                   "U+0449", "U+044A", "U+044B", "U+044C", "U+044D", "U+044E", "U+044F", "U+0450", "U+0451", "U+0452",
                   "U+0453", "U+0454", "U+0455", "U+0456", "U+0457", "U+0458", "U+0459", "U+045A", "U+045B", "U+045C",
                   "U+045D", "U+045E", "U+045F", "U+0461", "U+0463", "U+0465", "U+0467", "U+0469", "U+046B", "U+046D",
                   "U+046F", "U+0471", "U+0473", "U+0475", "U+0477", "U+0479", "U+047B", "U+047D", "U+047F", "ҁ",
                   "ҋ", "ҍ", "ҏ", "ґ", "ғ", "ҕ", "җ", "ҙ", "қ", "ҝ",
                   "ҟ", "ҡ", "ң", "ҥ", "ҧ", "ҩ", "ҫ", "ҭ", "ү", "ұ",
                   "ҳ", "ҵ", "ҷ", "ҹ", "һ", "ҽ", "ҿ", "ӂ", "ӄ", "ӆ",
                   "ӈ", "ӊ", "ӌ", "ӎ", "ӏ", "ӑ", "ӓ", "ӕ", "ӗ", "ә",
                   "ӛ", "ӝ", "ӟ", "ӡ", "ӣ", "ӥ", "ӧ", "ө", "ӫ", "ӭ",
                   "ӯ", "ӱ", "ӳ", "ӵ", "ӷ", "ӹ", "ӻ", "ӽ", "ӿ", "U+0501",
                   "U+0503", "U+0505", "U+0507", "U+0509", "U+050B", "U+050D", "U+050F", "U+0511", "U+0513", "U+0515",
                   "U+0517", "U+0519", "U+051B", "U+051D", "U+051F", "U+0521", "U+0523", "U+0525", "U+0527", "U+0529",
                   "U+052B", "U+052D", "U+052F", "U+0561", "U+0562", "U+0563", "U+0564", "U+0565", "U+0566", "U+0567",
                   "U+0568", "U+0569", "U+056A", "U+056B", "U+056C", "U+056D", "U+056E", "U+056F", "U+0570", "U+0571",
                   "U+0572", "U+0573", "U+0574", "U+0575", "U+0576", "U+0577", "U+0578", "U+0579", "U+057A", "U+057B",
                   "U+057C", "U+057D", "U+057E", "U+057F", "ր", "ց", "ւ", "փ", "ք", "օ",
                   "ֆ", "ა", "ბ", "გ", "დ", "ე", "ვ", "ზ", "თ", "ი",
                   "კ", "ლ", "მ", "ნ", "ო", "პ", "ჟ", "რ", "ს", "ტ",
                   "უ", "ფ", "ქ", "ღ", "ყ", "შ", "ჩ", "ც", "ძ", "წ",
                   "ჭ", "ხ", "ჯ", "ჰ", "ჱ", "ჲ", "ჳ", "ჴ", "ჵ", "ჶ",
                   "ჷ", "ჸ", "ჹ", "ჺ", "ჽ", "ჾ", "ჿ", "ᏸ", "ᏹ", "ᏺ",
                   "ᏻ", "ᏼ", "ᏽ", "ᲀ", "ᲁ", "ᲂ", "ᲃ", "ᲄ", "ᲅ", "ᲆ",
                   "ᲇ", "ᲈ", "ᲊ", "U+1D79", "U+1D7D", "ᶎ", "U+1E01", "U+1E03", "U+1E05", "U+1E07",
                   "U+1E09", "U+1E0B", "U+1E0D", "U+1E0F", "U+1E11", "U+1E13", "U+1E15", "U+1E17", "U+1E19", "U+1E1B",
                   "U+1E1D", "U+1E1F", "U+1E21", "U+1E23", "U+1E25", "U+1E27", "U+1E29", "U+1E2B", "U+1E2D", "U+1E2F",
                   "U+1E31", "U+1E33", "U+1E35", "U+1E37", "U+1E39", "U+1E3B", "U+1E3D", "U+1E3F", "U+1E41", "U+1E43",
                   "U+1E45", "U+1E47", "U+1E49", "U+1E4B", "U+1E4D", "U+1E4F", "U+1E51", "U+1E53", "U+1E55", "U+1E57",
                   "U+1E59", "U+1E5B", "U+1E5D", "U+1E5F", "U+1E61", "U+1E63", "U+1E65", "U+1E67", "U+1E69", "U+1E6B",
                   "U+1E6D", "U+1E6F", "U+1E71", "U+1E73", "U+1E75", "U+1E77", "U+1E79", "U+1E7B", "U+1E7D", "U+1E7F",
                   "ẁ", "ẃ", "ẅ", "ẇ", "ẉ", "ẋ", "ẍ", "ẏ", "ẑ", "ẓ",
                   "ẕ", "ẛ", "ạ", "ả", "ấ", "ầ", "ẩ", "ẫ", "ậ", "ắ",
                   "ằ", "ẳ", "ẵ", "ặ", "ẹ", "ẻ", "ẽ", "ế", "ề", "ể",
                   "ễ", "ệ", "ỉ", "ị", "ọ", "ỏ", "ố", "ồ", "ổ", "ỗ",
                   "ộ", "ớ", "ờ", "ở", "ỡ", "ợ", "ụ", "ủ", "ứ", "ừ",
                   "ử", "ữ", "ự", "ỳ", "ỵ", "ỷ", "ỹ", "ỻ", "ỽ", "ỿ",
                   "U+1F00", "U+1F01", "U+1F02", "U+1F03", "U+1F04", "U+1F05", "U+1F06", "U+1F07", "U+1F10", "U+1F11",
                   "U+1F12", "U+1F13", "U+1F14", "U+1F15", "U+1F20", "U+1F21", "U+1F22", "U+1F23", "U+1F24", "U+1F25",
                   "U+1F26", "U+1F27", "U+1F30", "U+1F31", "U+1F32", "U+1F33", "U+1F34", "U+1F35", "U+1F36", "U+1F37",
                   "U+1F40", "U+1F41", "U+1F42", "U+1F43", "U+1F44", "U+1F45", "U+1F51", "U+1F53", "U+1F55", "U+1F57",
                   "U+1F60", "U+1F61", "U+1F62", "U+1F63", "U+1F64", "U+1F65", "U+1F66", "U+1F67", "U+1F70", "U+1F71",
                   "U+1F72", "U+1F73", "U+1F74", "U+1F75", "U+1F76", "U+1F77", "U+1F78", "U+1F79", "U+1F7A", "U+1F7B",
                   "U+1F7C", "U+1F7D", "ᾰ", "ᾱ", "ι", "ῐ", "ῑ", "ῠ", "ῡ", "ῥ",
                   "U+214E", "U+2170", "U+2171", "U+2172", "U+2173", "U+2174", "U+2175", "U+2176", "U+2177", "U+2178",
                   "U+2179", "U+217A", "U+217B", "U+217C", "U+217D", "U+217E", "U+217F", "ↄ", "ⓐ", "ⓑ",
                   "ⓒ", "ⓓ", "ⓔ", "ⓕ", "ⓖ", "ⓗ", "ⓘ", "ⓙ", "ⓚ", "ⓛ",
                   "ⓜ", "ⓝ", "ⓞ", "ⓟ", "ⓠ", "ⓡ", "ⓢ", "ⓣ", "ⓤ", "ⓥ",
                   "ⓦ", "ⓧ", "ⓨ", "ⓩ", "U+2C30", "U+2C31", "U+2C32", "U+2C33", "U+2C34", "U+2C35",
                   "U+2C36", "U+2C37", "U+2C38", "U+2C39", "U+2C3A", "U+2C3B", "U+2C3C", "U+2C3D", "U+2C3E", "U+2C3F",
                   "U+2C40", "U+2C41", "U+2C42", "U+2C43", "U+2C44", "U+2C45", "U+2C46", "U+2C47", "U+2C48", "U+2C49",
                   "U+2C4A", "U+2C4B", "U+2C4C", "U+2C4D", "U+2C4E", "U+2C4F", "U+2C50", "U+2C51", "U+2C52", "U+2C53",
                   "U+2C54", "U+2C55", "U+2C56", "U+2C57", "U+2C58", "U+2C59", "U+2C5A", "U+2C5B", "U+2C5C", "U+2C5D",
                   "U+2C5E", "U+2C5F", "U+2C61", "U+2C65", "U+2C66", "U+2C68", "U+2C6A", "U+2C6C", "U+2C73", "U+2C76",
                   "ⲁ", "ⲃ", "ⲅ", "ⲇ", "ⲉ", "ⲋ", "ⲍ", "ⲏ", "ⲑ", "ⲓ",
                   "ⲕ", "ⲗ", "ⲙ", "ⲛ", "ⲝ", "ⲟ", "ⲡ", "ⲣ", "ⲥ", "ⲧ",
                   "ⲩ", "ⲫ", "ⲭ", "ⲯ", "ⲱ", "ⲳ", "ⲵ", "ⲷ", "ⲹ", "ⲻ",
                   "ⲽ", "ⲿ", "ⳁ", "ⳃ", "ⳅ", "ⳇ", "ⳉ", "ⳋ", "ⳍ", "ⳏ",
                   "ⳑ", "ⳓ", "ⳕ", "ⳗ", "ⳙ", "ⳛ", "ⳝ", "ⳟ", "ⳡ", "ⳣ",
                   "ⳬ", "ⳮ", "ⳳ", "U+2D00", "U+2D01", "U+2D02", "U+2D03", "U+2D04", "U+2D05", "U+2D06",
                   "U+2D07", "U+2D08", "U+2D09", "U+2D0A", "U+2D0B", "U+2D0C", "U+2D0D", "U+2D0E", "U+2D0F", "U+2D10",
                   "U+2D11", "U+2D12", "U+2D13", "U+2D14", "U+2D15", "U+2D16", "U+2D17", "U+2D18", "U+2D19", "U+2D1A",
                   "U+2D1B", "U+2D1C", "U+2D1D", "U+2D1E", "U+2D1F", "U+2D20", "U+2D21", "U+2D22", "U+2D23", "U+2D24",
                   "U+2D25", "U+2D27", "U+2D2D", "U+A641", "U+A643", "U+A645", "U+A647", "U+A649", "U+A64B", "U+A64D",
                   "U+A64F", "U+A651", "U+A653", "U+A655", "U+A657", "U+A659", "U+A65B", "U+A65D", "U+A65F", "U+A661",
                   "U+A663", "U+A665", "U+A667", "U+A669", "U+A66B", "U+A66D", "ꚁ", "ꚃ", "ꚅ", "ꚇ",
                   "ꚉ", "ꚋ", "ꚍ", "ꚏ", "ꚑ", "ꚓ", "ꚕ", "ꚗ", "ꚙ", "ꚛ",
                   "U+A723", "U+A725", "U+A727", "U+A729", "U+A72B", "U+A72D", "U+A72F", "U+A733", "U+A735", "U+A737",
                   "U+A739", "U+A73B", "U+A73D", "U+A73F", "U+A741", "U+A743", "U+A745", "U+A747", "U+A749", "U+A74B",
                   "U+A74D", "U+A74F", "U+A751", "U+A753", "U+A755", "U+A757", "U+A759", "U+A75B", "U+A75D", "U+A75F",
                   "U+A761", "U+A763", "U+A765", "U+A767", "U+A769", "U+A76B", "U+A76D", "U+A76F", "U+A77A", "U+A77C",
                   "U+A77F", "ꞁ", "ꞃ", "ꞅ", "ꞇ", "ꞌ", "ꞑ", "ꞓ", "ꞔ", "ꞗ",
                   "ꞙ", "ꞛ", "ꞝ", "ꞟ", "ꞡ", "ꞣ", "ꞥ", "ꞧ", "ꞩ", "ꞵ",
                   "ꞷ", "ꞹ", "ꞻ", "ꞽ", "ꞿ", "ꟁ", "ꟃ", "ꟈ", "ꟊ", "ꟍ",
                   "꟏", "ꟑ", "ꟓ", "ꟕ", "ꟗ", "ꟙ", "ꟛ", "ꟶ", "U+AB53", "U+AB70",
                   "U+AB71", "U+AB72", "U+AB73", "U+AB74", "U+AB75", "U+AB76", "U+AB77", "U+AB78", "U+AB79", "U+AB7A",
                   "U+AB7B", "U+AB7C", "U+AB7D", "U+AB7E", "U+AB7F", "ꮀ", "ꮁ", "ꮂ", "ꮃ", "ꮄ",
                   "ꮅ", "ꮆ", "ꮇ", "ꮈ", "ꮉ", "ꮊ", "ꮋ", "ꮌ", "ꮍ", "ꮎ",
                   "ꮏ", "ꮐ", "ꮑ", "ꮒ", "ꮓ", "ꮔ", "ꮕ", "ꮖ", "ꮗ", "ꮘ",
                   "ꮙ", "ꮚ", "ꮛ", "ꮜ", "ꮝ", "ꮞ", "ꮟ", "ꮠ", "ꮡ", "ꮢ",
                   "ꮣ", "ꮤ", "ꮥ", "ꮦ", "ꮧ", "ꮨ", "ꮩ", "ꮪ", "ꮫ", "ꮬ",
                   "ꮭ", "ꮮ", "ꮯ", "ꮰ", "ꮱ", "ꮲ", "ꮳ", "ꮴ", "ꮵ", "ꮶ",
                   "ꮷ", "ꮸ", "ꮹ", "ꮺ", "ꮻ", "ꮼ", "ꮽ", "ꮾ", "ꮿ", "U+FF41",
                   "U+FF42", "U+FF43", "U+FF44", "U+FF45", "U+FF46", "U+FF47", "U+FF48", "U+FF49", "U+FF4A", "U+FF4B",
                   "U+FF4C", "U+FF4D", "U+FF4E", "U+FF4F", "U+FF50", "U+FF51", "U+FF52", "U+FF53", "U+FF54", "U+FF55",
                   "U+FF56", "U+FF57", "U+FF58", "U+FF59", "U+FF5A", "U+10428", "U+10429", "U+1042A", "U+1042B", "U+1042C",
                   "U+1042D", "U+1042E", "U+1042F", "U+10430", "U+10431", "U+10432", "U+10433", "U+10434", "U+10435", "U+10436",
                   "U+10437", "U+10438", "U+10439", "U+1043A", "U+1043B", "U+1043C", "U+1043D", "U+1043E", "U+1043F", "U+10440",
                   "U+10441", "U+10442", "U+10443", "U+10444", "U+10445", "U+10446", "U+10447", "U+10448", "U+10449", "U+1044A",
                   "U+1044B", "U+1044C", "U+1044D", "U+1044E", "U+1044F", "U+104D8", "U+104D9", "U+104DA", "U+104DB", "U+104DC",
                   "U+104DD", "U+104DE", "U+104DF", "U+104E0", "U+104E1", "U+104E2", "U+104E3", "U+104E4", "U+104E5", "U+104E6",
                   "U+104E7", "U+104E8", "U+104E9", "U+104EA", "U+104EB", "U+104EC", "U+104ED", "U+104EE", "U+104EF", "U+104F0",
                   "U+104F1", "U+104F2", "U+104F3", "U+104F4", "U+104F5", "U+104F6", "U+104F7", "U+104F8", "U+104F9", "U+104FA",
                   "U+104FB", "U+10597", "U+10598", "U+10599", "U+1059A", "U+1059B", "U+1059C", "U+1059D", "U+1059E", "U+1059F",
                   "U+105A0", "U+105A1", "U+105A3", "U+105A4", "U+105A5", "U+105A6", "U+105A7", "U+105A8", "U+105A9", "U+105AA",
                   "U+105AB", "U+105AC", "U+105AD", "U+105AE", "U+105AF", "U+105B0", "U+105B1", "U+105B3", "U+105B4", "U+105B5",
                   "U+105B6", "U+105B7", "U+105B8", "U+105B9", "U+105BB", "U+105BC", "U+10CC0", "U+10CC1", "U+10CC2", "U+10CC3",
                   "U+10CC4", "U+10CC5", "U+10CC6", "U+10CC7", "U+10CC8", "U+10CC9", "U+10CCA", "U+10CCB", "U+10CCC", "U+10CCD",
                   "U+10CCE", "U+10CCF", "U+10CD0", "U+10CD1", "U+10CD2", "U+10CD3", "U+10CD4", "U+10CD5", "U+10CD6", "U+10CD7",
                   "U+10CD8", "U+10CD9", "U+10CDA", "U+10CDB", "U+10CDC", "U+10CDD", "U+10CDE", "U+10CDF", "U+10CE0", "U+10CE1",
                   "U+10CE2", "U+10CE3", "U+10CE4", "U+10CE5", "U+10CE6", "U+10CE7", "U+10CE8", "U+10CE9", "U+10CEA", "U+10CEB",
                   "U+10CEC", "U+10CED", "U+10CEE", "U+10CEF", "U+10CF0", "U+10CF1", "U+10CF2", "U+10D70", "U+10D71", "U+10D72",
                   "U+10D73", "U+10D74", "U+10D75", "U+10D76", "U+10D77", "U+10D78", "U+10D79", "U+10D7A", "U+10D7B", "U+10D7C",
                   "U+10D7D", "U+10D7E", "U+10D7F", "U+10D80", "U+10D81", "U+10D82", "U+10D83", "U+10D84", "U+10D85", "U+118C0",
                   "U+118C1", "U+118C2", "U+118C3", "U+118C4", "U+118C5", "U+118C6", "U+118C7", "U+118C8", "U+118C9", "U+118CA",
                   "U+118CB", "U+118CC", "U+118CD", "U+118CE", "U+118CF", "U+118D0", "U+118D1", "U+118D2", "U+118D3", "U+118D4",
                   "U+118D5", "U+118D6", "U+118D7", "U+118D8", "U+118D9", "U+118DA", "U+118DB", "U+118DC", "U+118DD", "U+118DE",
                   "U+118DF", "U+16E60", "U+16E61", "U+16E62", "U+16E63", "U+16E64", "U+16E65", "U+16E66", "U+16E67", "U+16E68",
                   "U+16E69", "U+16E6A", "U+16E6B", "U+16E6C", "U+16E6D", "U+16E6E", "U+16E6F", "U+16E70", "U+16E71", "U+16E72",
                   "U+16E73", "U+16E74", "U+16E75", "U+16E76", "U+16E77", "U+16E78", "U+16E79", "U+16E7A", "U+16E7B", "U+16E7C",
                   "U+16E7D", "U+16E7E", "U+16E7F", "U+16EBB", "U+16EBC", "U+16EBD", "U+16EBE", "U+16EBF", "U+16EC0", "U+16EC1",
                   "U+16EC2", "U+16EC3", "U+16EC4", "U+16EC5", "U+16EC6", "U+16EC7", "U+16EC8", "U+16EC9", "U+16ECA", "U+16ECB",
                   "U+16ECC", "U+16ECD", "U+16ECE", "U+16ECF", "U+16ED0", "U+16ED1", "U+16ED2", "U+16ED3", "U+1E922", "U+1E923",
                   "U+1E924", "U+1E925", "U+1E926", "U+1E927", "U+1E928", "U+1E929", "U+1E92A", "U+1E92B", "U+1E92C", "U+1E92D",
                   "U+1E92E", "U+1E92F", "U+1E930", "U+1E931", "U+1E932", "U+1E933", "U+1E934", "U+1E935", "U+1E936", "U+1E937",
                   "U+1E938", "U+1E939", "U+1E93A", "U+1E93B", "U+1E93C", "U+1E93D", "U+1E93E", "U+1E93F", "U+1E940", "U+1E941",
                   "U+1E942", "U+1E943">>
UpperLetters == <<"Μ", "À", "Á", "Â", "Ã", "Ä", "Å", "Æ", "Ç", "È",
                   "É", "Ê", "Ë", "Ì", "Í", "Î", "Ï", "Ð", "Ñ", "Ò",
                   "Ó", "Ô", "Õ", "Ö", "Ø", "Ù", "Ú", "Û", "Ü", "Ý",
                   "Þ", "U+0178", "U+0100", "U+0102", "U+0104", "U+0106", "U+0108", "U+010A", "U+010C", "U+010E",
                   "U+0110", "U+0112", "U+0114", "U+0116", "U+0118", "U+011A", "U+011C", "U+011E", "U+0120", "U+0122",
                   "U+0124", "U+0126", "U+0128", "U+012A", "U+012C", "U+012E", "I", "U+0132", "U+0134", "U+0136",
                   "U+0139", "U+013B", "U+013D", "U+013F", "U+0141", "U+0143", "U+0145", "U+0147", "U+014A", "U+014C",
                   "U+014E", "U+0150", "U+0152", "U+0154", "U+0156", "U+0158", "U+015A", "U+015C", "U+015E", "U+0160",
                   "U+0162", "U+0164", "U+0166", "U+0168", "U+016A", "U+016C", "U+016E", "U+0170", "U+0172", "U+0174",
                   "U+0176", "U+0179", "U+017B", "U+017D", "S", "U+0243", "Ƃ", "Ƅ", "Ƈ", "Ƌ",
                   "Ƒ", "Ƕ", "Ƙ", "U+023D", "Ƛ", "U+0220", "Ơ", "Ƣ", "Ƥ", "Ƨ",
                   "Ƭ", "Ư", "Ƴ", "Ƶ", "Ƹ", "Ƽ", "Ƿ", "Ǆ", "Ǆ", "Ǉ",
                   "Ǉ", "Ǌ", "Ǌ", "Ǎ", "Ǐ", "Ǒ", "Ǔ", "Ǖ", "Ǘ", "Ǚ",
                   "Ǜ", "Ǝ", "Ǟ", "Ǡ", "Ǣ", "Ǥ", "Ǧ", "Ǩ", "Ǫ", "Ǭ",
                   "Ǯ", "Ǳ", "Ǳ", "Ǵ", "Ǹ", "Ǻ", "Ǽ", "Ǿ", "U+0200", "U+0202",
                   "U+0204", "U+0206", "U+0208", "U+020A", "U+020C", "U+020E", "U+0210", "U+0212", "U+0214", "U+0216",
                   "U+0218", "U+021A", "U+021C", "U+021E", "U+0222", "U+0224", "U+0226", "U+0228", "U+022A", "U+022C",
                   "U+022E", "U+0230", "U+0232", "U+023B", "U+2C7E", "U+2C7F", "U+0241", "U+0246", "U+0248", "U+024A",
                   "U+024C", "U+024E", "U+2C6F", "U+2C6D", "U+2C70", "Ɓ", "Ɔ", "Ɖ", "Ɗ", "Ə",
                   "Ɛ", "Ɜ", "Ɠ", "Ɡ", "Ɣ", "Ɤ", "Ɥ", "Ɦ", "Ɨ", "Ɩ",
                   "Ɪ", "U+2C62", "Ɬ", "Ɯ", "U+2C6E", "Ɲ", "Ɵ", "U+2C64", "Ʀ", "Ʂ",
                   "Ʃ", "Ʇ", "Ʈ", "U+0244", "Ʊ", "Ʋ", "U+0245", "Ʒ", "Ʝ", "Ʞ",
                   "Ι", "U+0370", "U+0372", "U+0376", "Ͻ", "Ͼ", "Ͽ", "Ά", "Έ", "Ή",
                   "Ί", "Α", "Β", "Γ", "Δ", "Ε", "Ζ", "Η", "Θ", "Ι",
                   "Κ", "Λ", "Μ", "Ν", "Ξ", "Ο", "Π", "Ρ", "Σ", "Σ",
                   "Τ", "Υ", "Φ", "Χ", "Ψ", "Ω", "Ϊ", "Ϋ", "Ό", "Ύ",
                   "Ώ", "Β", "Θ", "Φ", "Π", "Ϗ", "Ϙ", "Ϛ", "Ϝ", "Ϟ",
                   "Ϡ", "Ϣ", "Ϥ", "Ϧ", "Ϩ", "Ϫ", "Ϭ", "Ϯ", "Κ", "Ρ",
                   "Ϲ", "U+037F", "Ε", "Ϸ", "Ϻ", "U+0410", "U+0411", "U+0412", "U+0413", "U+0414",
                   "U+0415", "U+0416", "U+0417", "U+0418", "U+0419", "U+041A", "U+041B", "U+041C", "U+041D", "U+041E",
                   "U+041F", "U+0420", "U+0421", "U+0422", "U+0423", "U+0424", "U+0425", "U+0426", "U+0427", "U+0428",
                   "U+0429", "U+042A", "U+042B", "U+042C", "U+042D", "U+042E", "U+042F", "U+0400", "U+0401", "U+0402",
                   "U+0403", "U+0404", "U+0405", "U+0406", "U+0407", "U+0408", "U+0409", "U+040A", "U+040B", "U+040C",
                   "U+040D", "U+040E", "U+040F", "U+0460", "U+0462", "U+0464", "U+0466", "U+0468", "U+046A", "U+046C",
                   "U+046E", "U+0470", "U+0472", "U+0474", "U+0476", "U+0478", "U+047A", "U+047C", "U+047E", "Ҁ",
                   "Ҋ", "Ҍ", "Ҏ", "Ґ", "Ғ", "Ҕ", "Җ", "Ҙ", "Қ", "Ҝ",
                   "Ҟ", "Ҡ", "Ң", "Ҥ", "Ҧ", "Ҩ", "Ҫ", "Ҭ", "Ү", "Ұ",
                   "Ҳ", "Ҵ", "Ҷ", "Ҹ", "Һ", "Ҽ", "Ҿ", "Ӂ", "Ӄ", "Ӆ",
                   "Ӈ", "Ӊ", "Ӌ", "Ӎ", "Ӏ", "Ӑ", "Ӓ", "Ӕ", "Ӗ", "Ә",
                   "Ӛ", "Ӝ", "Ӟ", "Ӡ", "Ӣ", "Ӥ", "Ӧ", "Ө", "Ӫ", "Ӭ",
                   "Ӯ", "Ӱ", "Ӳ", "Ӵ", "Ӷ", "Ӹ", "Ӻ", "Ӽ", "Ӿ", "U+0500",
                   "U+0502", "U+0504", "U+0506", "U+0508", "U+050A", "U+050C", "U+050E", "U+0510", "U+0512", "U+0514",
                   "U+0516", "U+0518", "U+051A", "U+051C", "U+051E", "U+0520", "U+0522", "U+0524", "U+0526", "U+0528",
                   "U+052A", "U+052C", "U+052E", "U+0531", "U+0532", "U+0533", "U+0534", "U+0535", "U+0536", "U+0537",
                   "U+0538", "U+0539", "U+053A", "U+053B", "U+053C", "U+053D", "U+053E", "U+053F", "U+0540", "U+0541",
                   "U+0542", "U+0543", "U+0544", "U+0545", "U+0546", "U+0547", "U+0548", "U+0549", "U+054A", "U+054B",
                   "U+054C", "U+054D", "U+054E", "U+054F", "U+0550", "U+0551", "U+0552", "U+0553", "U+0554", "U+0555",
                   "U+0556", "Ა", "Ბ", "Გ", "Დ", "Ე", "Ვ", "Ზ", "Თ", "Ი",
                   "Კ", "Ლ", "Მ", "Ნ", "Ო", "Პ", "Ჟ", "Რ", "Ს", "Ტ",
                   "Უ", "Ფ", "Ქ", "Ღ", "Ყ", "Შ", "Ჩ", "Ც", "Ძ", "Წ",
                   "Ჭ", "Ხ", "Ჯ", "Ჰ", "Ჱ", "Ჲ", "Ჳ", "Ჴ", "Ჵ", "Ჶ",
                   "Ჷ", "Ჸ", "Ჹ", "Ჺ", "Ჽ", "Ჾ", "Ჿ", "Ᏸ", "Ᏹ", "Ᏺ",
                   "Ᏻ", "Ᏼ", "Ᏽ", "U+0412", "U+0414", "U+041E", "U+0421", "U+0422", "U+0422", "U+042A",
                   "U+0462", "U+A64A", "Ᲊ", "U+A77D", "U+2C63", "Ᶎ", "U+1E00", "U+1E02", "U+1E04", "U+1E06",
                   "U+1E08", "U+1E0A", "U+1E0C", "U+1E0E", "U+1E10", "U+1E12", "U+1E14", "U+1E16", "U+1E18", "U+1E1A",
                   "U+1E1C", "U+1E1E", "U+1E20", "U+1E22", "U+1E24", "U+1E26", "U+1E28", "U+1E2A", "U+1E2C", "U+1E2E",
                   "U+1E30", "U+1E32", "U+1E34", "U+1E36", "U+1E38", "U+1E3A", "U+1E3C", "U+1E3E", "U+1E40", "U+1E42",
                   "U+1E44", "U+1E46", "U+1E48", "U+1E4A", "U+1E4C", "U+1E4E", "U+1E50", "U+1E52", "U+1E54", "U+1E56",
                   "U+1E58", "U+1E5A", "U+1E5C", "U+1E5E", "U+1E60", "U+1E62", "U+1E64", "U+1E66", "U+1E68", "U+1E6A",
                   "U+1E6C", "U+1E6E", "U+1E70", "U+1E72", "U+1E74", "U+1E76", "U+1E78", "U+1E7A", "U+1E7C", "U+1E7E",
                   "Ẁ", "Ẃ", "Ẅ", "Ẇ", "Ẉ", "Ẋ", "Ẍ", "Ẏ", "Ẑ", "Ẓ",
                   "Ẕ", "U+1E60", "Ạ", "Ả", "Ấ", "Ầ", "Ẩ", "Ẫ", "Ậ", "Ắ",
                   "Ằ", "Ẳ", "Ẵ", "Ặ", "Ẹ", "Ẻ", "Ẽ", "Ế", "Ề", "Ể",
                   "Ễ", "Ệ", "Ỉ", "Ị", "Ọ", "Ỏ", "Ố", "Ồ", "Ổ", "Ỗ",
                   "Ộ", "Ớ", "Ờ", "Ở", "Ỡ", "Ợ", "Ụ", "Ủ", "Ứ", "Ừ",
                   "Ử", "Ữ", "Ự", "Ỳ", "Ỵ", "Ỷ", "Ỹ", "Ỻ", "Ỽ", "Ỿ",
                   "U+1F08", "U+1F09", "U+1F0A", "U+1F0B", "U+1F0C", "U+1F0D", "U+1F0E", "U+1F0F", "U+1F18", "U+1F19",
                   "U+1F1A", "U+1F1B", "U+1F1C", "U+1F1D", "U+1F28", "U+1F29", "U+1F2A", "U+1F2B", "U+1F2C", "U+1F2D",
                   "U+1F2E", "U+1F2F", "U+1F38", "U+1F39", "U+1F3A", "U+1F3B", "U+1F3C", "U+1F3D", "U+1F3E", "U+1F3F",
                   "U+1F48", "U+1F49", "U+1F4A", "U+1F4B", "U+1F4C", "U+1F4D", "U+1F59", "U+1F5B", "U+1F5D", "U+1F5F",
                   "U+1F68", "U+1F69", "U+1F6A", "U+1F6B", "U+1F6C", "U+1F6D", "U+1F6E", "U+1F6F", "Ὰ", "Ά",
                   "Ὲ", "Έ", "Ὴ", "Ή", "Ὶ", "Ί", "Ὸ", "Ό", "Ὺ", "Ύ",
                   "Ὼ", "Ώ", "Ᾰ", "Ᾱ", "Ι", "Ῐ", "Ῑ", "Ῠ", "Ῡ", "Ῥ",
                   "U+2132", "U+2160", "U+2161", "U+2162", "U+2163", "U+2164", "U+2165", "U+2166", "U+2167", "U+2168",
                   "U+2169", "U+216A", "U+216B", "U+216C", "U+216D", "U+216E", "U+216F", "Ↄ", "Ⓐ", "Ⓑ",
                   "Ⓒ", "Ⓓ", "Ⓔ", "Ⓕ", "Ⓖ", "Ⓗ", "Ⓘ", "Ⓙ", "Ⓚ", "Ⓛ",
                   "Ⓜ", "Ⓝ", "Ⓞ", "Ⓟ", "Ⓠ", "Ⓡ", "Ⓢ", "Ⓣ", "Ⓤ", "Ⓥ",
                   "Ⓦ", "Ⓧ", "Ⓨ", "Ⓩ", "U+2C00", "U+2C01", "U+2C02", "U+2C03", "U+2C04", "U+2C05",
                   "U+2C06", "U+2C07", "U+2C08", "U+2C09", "U+2C0A", "U+2C0B", "U+2C0C", "U+2C0D", "U+2C0E", "U+2C0F",
                   "U+2C10", "U+2C11", "U+2C12", "U+2C13", "U+2C14", "U+2C15", "U+2C16", "U+2C17", "U+2C18", "U+2C19",
                   "U+2C1A", "U+2C1B", "U+2C1C", "U+2C1D", "U+2C1E", "U+2C1F", "U+2C20", "U+2C21", "U+2C22", "U+2C23",
                   "U+2C24", "U+2C25", "U+2C26", "U+2C27", "U+2C28", "U+2C29", "U+2C2A", "U+2C2B", "U+2C2C", "U+2C2D",
                   "U+2C2E", "U+2C2F", "U+2C60", "U+023A", "U+023E", "U+2C67", "U+2C69", "U+2C6B", "U+2C72", "U+2C75",
                   "Ⲁ", "Ⲃ", "Ⲅ", "Ⲇ", "Ⲉ", "Ⲋ", "Ⲍ", "Ⲏ", "Ⲑ", "Ⲓ",
                   "Ⲕ", "Ⲗ", "Ⲙ", "Ⲛ", "Ⲝ", "Ⲟ", "Ⲡ", "Ⲣ", "Ⲥ", "Ⲧ",
                   "Ⲩ", "Ⲫ", "Ⲭ", "Ⲯ", "Ⲱ", "Ⲳ", "Ⲵ", "Ⲷ", "Ⲹ", "Ⲻ",
                   "Ⲽ", "Ⲿ", "Ⳁ", "Ⳃ", "Ⳅ", "Ⳇ", "Ⳉ", "Ⳋ", "Ⳍ", "Ⳏ",
                   "Ⳑ", "Ⳓ", "Ⳕ", "Ⳗ", "Ⳙ", "Ⳛ", "Ⳝ", "Ⳟ", "Ⳡ", "Ⳣ",
                   "Ⳬ", "Ⳮ", "Ⳳ", "Ⴀ", "Ⴁ", "Ⴂ", "Ⴃ", "Ⴄ", "Ⴅ", "Ⴆ",
                   "Ⴇ", "Ⴈ", "Ⴉ", "Ⴊ", "Ⴋ", "Ⴌ", "Ⴍ", "Ⴎ", "Ⴏ", "Ⴐ",
                   "Ⴑ", "Ⴒ", "Ⴓ", "Ⴔ", "Ⴕ", "Ⴖ", "Ⴗ", "Ⴘ", "Ⴙ", "Ⴚ",
                   "Ⴛ", "Ⴜ", "Ⴝ", "Ⴞ", "Ⴟ", "Ⴠ", "Ⴡ", "Ⴢ", "Ⴣ", "Ⴤ",
                   "Ⴥ", "Ⴧ", "Ⴭ", "U+A640", "U+A642", "U+A644", "U+A646", "U+A648", "U+A64A", "U+A64C",
                   "U+A64E", "U+A650", "U+A652", "U+A654", "U+A656", "U+A658", "U+A65A", "U+A65C", "U+A65E", "U+A660",
                   "U+A662", "U+A664", "U+A666", "U+A668", "U+A66A", "U+A66C", "Ꚁ", "Ꚃ", "Ꚅ", "Ꚇ",
                   "Ꚉ", "Ꚋ", "Ꚍ", "Ꚏ", "Ꚑ", "Ꚓ", "Ꚕ", "Ꚗ", "Ꚙ", "Ꚛ",
                   "U+A722", "U+A724", "U+A726", "U+A728", "U+A72A", "U+A72C", "U+A72E", "U+A732", "U+A734", "U+A736",
                   "U+A738", "U+A73A", "U+A73C", "U+A73E", "U+A740", "U+A742", "U+A744", "U+A746", "U+A748", "U+A74A",
                   "U+A74C", "U+A74E", "U+A750", "U+A752", "U+A754", "U+A756", "U+A758", "U+A75A", "U+A75C", "U+A75E",
                   "U+A760", "U+A762", "U+A764", "U+A766", "U+A768", "U+A76A", "U+A76C", "U+A76E", "U+A779", "U+A77B",
                   "U+A77E", "Ꞁ", "Ꞃ", "Ꞅ", "Ꞇ", "Ꞌ", "Ꞑ", "Ꞓ", "Ꞔ", "Ꞗ",
                   "Ꞙ", "Ꞛ", "Ꞝ", "Ꞟ", "Ꞡ", "Ꞣ", "Ꞥ", "Ꞧ", "Ꞩ", "Ꞵ",
                   "Ꞷ", "Ꞹ", "Ꞻ", "Ꞽ", "Ꞿ", "Ꟁ", "Ꟃ", "Ꟈ", "Ꟊ", "Ꟍ",
                   "꟎", "Ꟑ", "꟒", "꟔", "Ꟗ", "Ꟙ", "Ꟛ", "Ꟶ", "Ꭓ", "Ꭰ",
                   "Ꭱ", "Ꭲ", "Ꭳ", "Ꭴ", "Ꭵ", "Ꭶ", "Ꭷ", "Ꭸ", "Ꭹ", "Ꭺ",
                   "Ꭻ", "Ꭼ", "Ꭽ", "Ꭾ", "Ꭿ", "Ꮀ", "Ꮁ", "Ꮂ", "Ꮃ", "Ꮄ",
                   "Ꮅ", "Ꮆ", "Ꮇ", "Ꮈ", "Ꮉ", "Ꮊ", "Ꮋ", "Ꮌ", "Ꮍ", "Ꮎ",
                   "Ꮏ", "Ꮐ", "Ꮑ", "Ꮒ", "Ꮓ", "Ꮔ", "Ꮕ", "Ꮖ", "Ꮗ", "Ꮘ",
                   "Ꮙ", "Ꮚ", "Ꮛ", "Ꮜ", "Ꮝ", "Ꮞ", "Ꮟ", "Ꮠ", "Ꮡ", "Ꮢ",
                   "Ꮣ", "Ꮤ", "Ꮥ", "Ꮦ", "Ꮧ", "Ꮨ", "Ꮩ", "Ꮪ", "Ꮫ", "Ꮬ",
                   "Ꮭ", "Ꮮ", "Ꮯ", "Ꮰ", "Ꮱ", "Ꮲ", "Ꮳ", "Ꮴ", "Ꮵ", "Ꮶ",
                   "Ꮷ", "Ꮸ", "Ꮹ", "Ꮺ", "Ꮻ", "Ꮼ", "Ꮽ", "Ꮾ", "Ꮿ", "U+FF21",
                   "U+FF22", "U+FF23", "U+FF24", "U+FF25", "U+FF26", "U+FF27", "U+FF28", "U+FF29", "U+FF2A", "U+FF2B",
                   "U+FF2C", "U+FF2D", "U+FF2E", "U+FF2F", "U+FF30", "U+FF31", "U+FF32", "U+FF33", "U+FF34", "U+FF35",
                   "U+FF36", "U+FF37", "U+FF38", "U+FF39", "U+FF3A", "U+10400", "U+10401", "U+10402", "U+10403", "U+10404",
                   "U+10405", "U+10406", "U+10407", "U+10408", "U+10409", "U+1040A", "U+1040B", "U+1040C", "U+1040D", "U+1040E",
                   "U+1040F", "U+10410", "U+10411", "U+10412", "U+10413", "U+10414", "U+10415", "U+10416", "U+10417", "U+10418",
                   "U+10419", "U+1041A", "U+1041B", "U+1041C", "U+1041D", "U+1041E", "U+1041F", "U+10420", "U+10421", "U+10422",
                   "U+10423", "U+10424", "U+10425", "U+10426", "U+10427", "U+104B0", "U+104B1", "U+104B2", "U+104B3", "U+104B4",
                   "U+104B5", "U+104B6", "U+104B7", "U+104B8", "U+104B9", "U+104BA", "U+104BB", "U+104BC", "U+104BD", "U+104BE",
                   "U+104BF", "U+104C0", "U+104C1", "U+104C2", "U+104C3", "U+104C4", "U+104C5", "U+104C6", "U+104C7", "U+104C8",
                   "U+104C9", "U+104CA", "U+104CB", "U+104CC", "U+104CD", "U+104CE", "U+104CF", "U+104D0", "U+104D1", "U+104D2",
                   "U+104D3", "U+10570", "U+10571", "U+10572", "U+10573", "U+10574", "U+10575", "U+10576", "U+10577", "U+10578",
                   "U+10579", "U+1057A", "U+1057C", "U+1057D", "U+1057E", "U+1057F", "U+10580", "U+10581", "U+10582", "U+10583",
                   "U+10584", "U+10585", "U+10586", "U+10587", "U+10588", "U+10589", "U+1058A", "U+1058C", "U+1058D", "U+1058E",
                   "U+1058F", "U+10590", "U+10591", "U+10592", "U+10594", "U+10595", "U+10C80", "U+10C81", "U+10C82", "U+10C83",
                   "U+10C84", "U+10C85", "U+10C86", "U+10C87", "U+10C88", "U+10C89", "U+10C8A", "U+10C8B", "U+10C8C", "U+10C8D",
                   "U+10C8E", "U+10C8F", "U+10C90", "U+10C91", "U+10C92", "U+10C93", "U+10C94", "U+10C95", "U+10C96", "U+10C97",
                   "U+10C98", "U+10C99", "U+10C9A", "U+10C9B", "U+10C9C", "U+10C9D", "U+10C9E", "U+10C9F", "U+10CA0", "U+10CA1",
                   "U+10CA2", "U+10CA3", "U+10CA4", "U+10CA5", "U+10CA6", "U+10CA7", "U+10CA8", "U+10CA9", "U+10CAA", "U+10CAB",
                   "U+10CAC", "U+10CAD", "U+10CAE", "U+10CAF", "U+10CB0", "U+10CB1", "U+10CB2", "U+10D50", "U+10D51", "U+10D52",
                   "U+10D53", "U+10D54", "U+10D55", "U+10D56", "U+10D57", "U+10D58", "U+10D59", "U+10D5A", "U+10D5B", "U+10D5C",
                   "U+10D5D", "U+10D5E", "U+10D5F", "U+10D60", "U+10D61", "U+10D62", "U+10D63", "U+10D64", "U+10D65", "U+118A0",
                   "U+118A1", "U+118A2", "U+118A3", "U+118A4", "U+118A5", "U+118A6", "U+118A7", "U+118A8", "U+118A9", "U+118AA",
                   "U+118AB", "U+118AC", "U+118AD", "U+118AE", "U+118AF", "U+118B0", "U+118B1", "U+118B2", "U+118B3", "U+118B4",
                   "U+118B5", "U+118B6", "U+118B7", "U+118B8", "U+118B9", "U+118BA", "U+118BB", "U+118BC", "U+118BD", "U+118BE",
                   "U+118BF", "U+16E40", "U+16E41", "U+16E42", "U+16E43", "U+16E44", "U+16E45", "U+16E46", "U+16E47", "U+16E48",
                   "U+16E49", "U+16E4A", "U+16E4B", "U+16E4C", "U+16E4D", "U+16E4E", "U+16E4F", "U+16E50", "U+16E51", "U+16E52",
                   "U+16E53", "U+16E54", "U+16E55", "U+16E56", "U+16E57", "U+16E58", "U+16E59", "U+16E5A", "U+16E5B", "U+16E5C",
                   "U+16E5D", "U+16E5E", "U+16E5F", "U+16EA0", "U+16EA1", "U+16EA2", "U+16EA3", "U+16EA4", "U+16EA5", "U+16EA6",
                   "U+16EA7", "U+16EA8", "U+16EA9", "U+16EAA", "U+16EAB", "U+16EAC", "U+16EAD", "U+16EAE", "U+16EAF", "U+16EB0",
                   "U+16EB1", "U+16EB2", "U+16EB3", "U+16EB4", "U+16EB5", "U+16EB6", "U+16EB7", "U+16EB8", "U+1E900", "U+1E901",
                   "U+1E902", "U+1E903", "U+1E904", "U+1E905", "U+1E906", "U+1E907", "U+1E908", "U+1E909", "U+1E90A", "U+1E90B",
                   "U+1E90C", "U+1E90D", "U+1E90E", "U+1E90F", "U+1E910", "U+1E911", "U+1E912", "U+1E913", "U+1E914", "U+1E915",
                   "U+1E916", "U+1E917", "U+1E918", "U+1E919", "U+1E91A", "U+1E91B", "U+1E91C", "U+1E91D", "U+1E91E", "U+1E91F",
                   "U+1E920", "U+1E921">>
SpecialCasing ==
  "ß" :> <<"S", "S">> @@ "U+0149" :> <<"ʼ", "N">> @@ "ǰ" :> <<"J", "U+030C">> @@
  "ΐ" :> <<"Ι", "U+0308", "U+0301">> @@ "ΰ" :> <<"Υ", "U+0308", "U+0301">> @@ "և" :> <<"U+0535", "U+0552">> @@
  "ẖ" :> <<"H", "U+0331">> @@ "ẗ" :> <<"T", "U+0308">> @@ "ẘ" :> <<"W", "U+030A">> @@
  "ẙ" :> <<"Y", "U+030A">> @@ "ẚ" :> <<"A", "ʾ">> @@ "U+1F50" :> <<"Υ", "U+0313">> @@
  "U+1F52" :> <<"Υ", "U+0313", "U+0300">> @@ "U+1F54" :> <<"Υ", "U+0313", "U+0301">> @@ "U+1F56" :> <<"Υ", "U+0313", "U+0342">> @@
  "ᾀ" :> <<"U+1F08", "Ι">> @@ "ᾁ" :> <<"U+1F09", "Ι">> @@ "ᾂ" :> <<"U+1F0A", "Ι">> @@
  "ᾃ" :> <<"U+1F0B", "Ι">> @@ "ᾄ" :> <<"U+1F0C", "Ι">> @@ "ᾅ" :> <<"U+1F0D", "Ι">> @@
  "ᾆ" :> <<"U+1F0E", "Ι">> @@ "ᾇ" :> <<"U+1F0F", "Ι">> @@ "ᾈ" :> <<"U+1F08", "Ι">> @@
  "ᾉ" :> <<"U+1F09", "Ι">> @@ "ᾊ" :> <<"U+1F0A", "Ι">> @@ "ᾋ" :> <<"U+1F0B", "Ι">> @@
  "ᾌ" :> <<"U+1F0C", "Ι">> @@ "ᾍ" :> <<"U+1F0D", "Ι">> @@ "ᾎ" :> <<"U+1F0E", "Ι">> @@
  "ᾏ" :> <<"U+1F0F", "Ι">> @@ "ᾐ" :> <<"U+1F28", "Ι">> @@ "ᾑ" :> <<"U+1F29", "Ι">> @@
  "ᾒ" :> <<"U+1F2A", "Ι">> @@ "ᾓ" :> <<"U+1F2B", "Ι">> @@ "ᾔ" :> <<"U+1F2C", "Ι">> @@
  "ᾕ" :> <<"U+1F2D", "Ι">> @@ "ᾖ" :> <<"U+1F2E", "Ι">> @@ "ᾗ" :> <<"U+1F2F", "Ι">> @@
  "ᾘ" :> <<"U+1F28", "Ι">> @@ "ᾙ" :> <<"U+1F29", "Ι">> @@ "ᾚ" :> <<"U+1F2A", "Ι">> @@
  "ᾛ" :> <<"U+1F2B", "Ι">> @@ "ᾜ" :> <<"U+1F2C", "Ι">> @@ "ᾝ" :> <<"U+1F2D", "Ι">> @@
  "ᾞ" :> <<"U+1F2E", "Ι">> @@ "ᾟ" :> <<"U+1F2F", "Ι">> @@ "ᾠ" :> <<"U+1F68", "Ι">> @@
  "ᾡ" :> <<"U+1F69", "Ι">> @@ "ᾢ" :> <<"U+1F6A", "Ι">> @@ "ᾣ" :> <<"U+1F6B", "Ι">> @@
  "ᾤ" :> <<"U+1F6C", "Ι">> @@ "ᾥ" :> <<"U+1F6D", "Ι">> @@ "ᾦ" :> <<"U+1F6E", "Ι">> @@
  "ᾧ" :> <<"U+1F6F", "Ι">> @@ "ᾨ" :> <<"U+1F68", "Ι">> @@ "ᾩ" :> <<"U+1F69", "Ι">> @@
  "ᾪ" :> <<"U+1F6A", "Ι">> @@ "ᾫ" :> <<"U+1F6B", "Ι">> @@ "ᾬ" :> <<"U+1F6C", "Ι">> @@
  "ᾭ" :> <<"U+1F6D", "Ι">> @@ "ᾮ" :> <<"U+1F6E", "Ι">> @@ "ᾯ" :> <<"U+1F6F", "Ι">> @@
  "ᾲ" :> <<"Ὰ", "Ι">> @@ "ᾳ" :> <<"Α", "Ι">> @@ "ᾴ" :> <<"Ά", "Ι">> @@
  "ᾶ" :> <<"Α", "U+0342">> @@ "ᾷ" :> <<"Α", "U+0342", "Ι">> @@ "ᾼ" :> <<"Α", "Ι">> @@
  "ῂ" :> <<"Ὴ", "Ι">> @@ "ῃ" :> <<"Η", "Ι">> @@ "ῄ" :> <<"Ή", "Ι">> @@
  "ῆ" :> <<"Η", "U+0342">> @@ "ῇ" :> <<"Η", "U+0342", "Ι">> @@ "ῌ" :> <<"Η", "Ι">> @@
  "ῒ" :> <<"Ι", "U+0308", "U+0300">> @@ "ΐ" :> <<"Ι", "U+0308", "U+0301">> @@ "ῖ" :> <<"Ι", "U+0342">> @@
  "ῗ" :> <<"Ι", "U+0308", "U+0342">> @@ "ῢ" :> <<"Υ", "U+0308", "U+0300">> @@ "ΰ" :> <<"Υ", "U+0308", "U+0301">> @@
  "ῤ" :> <<"Ρ", "U+0313">> @@ "ῦ" :> <<"Υ", "U+0342">> @@ "ῧ" :> <<"Υ", "U+0308", "U+0342">> @@
  "ῲ" :> <<"Ὼ", "Ι">> @@ "ῳ" :> <<"Ω", "Ι">> @@ "ῴ" :> <<"Ώ", "Ι">> @@
  "ῶ" :> <<"Ω", "U+0342">> @@ "ῷ" :> <<"Ω", "U+0342", "Ι">> @@ "ῼ" :> <<"Ω", "Ι">> @@
  "U+FB00" :> <<"F", "F">> @@ "U+FB01" :> <<"F", "I">> @@ "U+FB02" :> <<"F", "L">> @@
  "U+FB03" :> <<"F", "F", "I">> @@ "U+FB04" :> <<"F", "F", "L">> @@ "U+FB05" :> <<"S", "T">> @@
  "U+FB06" :> <<"S", "T">> @@ "U+FB13" :> <<"U+0544", "U+0546">> @@ "U+FB14" :> <<"U+0544", "U+0535">> @@
  "U+FB15" :> <<"U+0544", "U+053B">> @@ "U+FB16" :> <<"U+054E", "U+0546">> @@ "U+FB17" :> <<"U+0544", "U+053D">>

\* the letters beyond a-z with a one-letter upper-case form
HasUpperLetter == Range(LowerLetters)

\* the upper-case form of one character, as a string of one or more characters
UpperChar(c) ==
  IF c \in Range(LowerChars)
  THEN <<UpperChars[CHOOSE i \in DOMAIN LowerChars : LowerChars[i] = c]>>
  ELSE IF c \in DOMAIN SpecialCasing THEN SpecialCasing[c]
  ELSE IF c \in HasUpperLetter
  THEN <<UpperLetters[CHOOSE i \in DOMAIN LowerLetters : LowerLetters[i] = c]>>
  ELSE <<c>>

\* String.prototype.toUpperCase: the upper-case forms of the characters, one after
\* another; the result is longer than s where a letter has several
RECURSIVE toUpperCase(_)
toUpperCase(s) == IF s = <<>> THEN <<>> ELSE UpperChar(Head(s)) \o toUpperCase(Tail(s))

\* the character at index i (1-based), "" outside the string
At(s, i) == IF i \in 1..Len(s) THEN s[i] ELSE ""

\* \b holds between index i-1 and index i
WordBoundary(s, i) == IsWordChar(At(s, i - 1)) # IsWordChar(At(s, i))

\* the literal lit stands at index i
LitAt(s, i, lit) == \A k \in 1..Len(lit) : At(s, i + k - 1) = lit[k]

\* String.prototype.includes / startsWith
Includes(s, lit) == \E i \in 1..Len(s) : LitAt(s, i, lit)
StartsWith(s, lit) == LitAt(s, 1, lit)

\* length of the longest run of digits (\d+, greedy) or spaces (\s*) from index i
DigitRun(s, i) ==
  CHOOSE n \in 0..Len(s) :
    (\A k \in 0..(n - 1) : IsDigit(At(s, i + k))) /\ ~IsDigit(At(s, i + n))
SpaceRun(s, i) ==
  CHOOSE n \in 0..Len(s) :
    (\A k \in 0..(n - 1) : IsSpace(At(s, i + k))) /\ ~IsSpace(At(s, i + n))

\* parseInt of the n digits at index i
RECURSIVE ParseInt(_, _, _)
ParseInt(s, i, n) ==
  IF n = 0 THEN 0 ELSE ParseInt(s, i, n - 1) * 10 + DigitVal(s[i + n - 1])

\* parseFloat of the n digits at index i with the m digits after the point at index j,
\* in thousandths: the double nearest to the decimal
ParseFloat(s, i, n, j, m) ==
  Thousandths(Nearest(ParseInt(s, i, n), Decimal([k \in 1..m |-> DigitVal(s[j + k - 1])])))

\* the least index in a set of match positions, 0 when there is no match
FirstOf(S) == IF S = {} THEN 0 ELSE MinOf(S)

Positions(s) == 1..(Len(s) + 1)

----------------------------------------------------------------------------
(* FlightCategory, src/src/types/flightCategory.ts *)

VFR == <<"V", "F", "R">>
MVFR == <<"M", "V", "F", "R">>
IFR == <<"I", "F", "R">>
LIFR == <<"L", "I", "F", "R">>
UNKNOWN == <<"U", "N", "K", "N", "O", "W", "N">>

\* Object.values(FlightCategory)
FlightCategoryValues == {VFR, MVFR, IFR, LIFR, UNKNOWN}

----------------------------------------------------------------------------
(* Patterns of parseFlightCategory, src/src/utils/metarParser.ts *)

\* /\b(LIFR|IFR|MVFR|VFR)\b/ anchored at index i: the word matched, or <<>>
categoryMatchAt(s, i) ==
  IF ~WordBoundary(s, i) THEN <<>>
  ELSE IF LitAt(s, i, LIFR) /\ WordBoundary(s, i + 4) THEN LIFR
  ELSE IF LitAt(s, i, IFR) /\ WordBoundary(s, i + 3) THEN IFR
  ELSE IF LitAt(s, i, MVFR) /\ WordBoundary(s, i + 4) THEN MVFR
  ELSE IF LitAt(s, i, VFR) /\ WordBoundary(s, i + 3) THEN VFR
  ELSE <<>>

\* rawTextForCategory.match(/\b(LIFR|IFR|MVFR|VFR)\b/): group 1 of the leftmost match, or <<>>
categoryMatch(s) ==
  LET i == FirstOf({j \in Positions(s) : categoryMatchAt(s, j) # <<>>})
  IN  IF i = 0 THEN <<>> ELSE categoryMatchAt(s, i)

\* /(\d+(?:\.\d+)?)\s*SM/ anchored at index i: parseFloat of group 1 in thousandths, or -1
visMatchAt(s, i) ==
  LET n == DigitRun(s, i)
      m == IF n > 0 /\ At(s, i + n) = "." THEN DigitRun(s, i + n + 1) ELSE 0
      e == IF m > 0 THEN i + n + 1 + m ELSE i + n
  IN  IF n > 0 /\ LitAt(s, e + SpaceRun(s, e), <<"S", "M">>)
      THEN ParseFloat(s, i, n, i + n + 1, m)
      ELSE -1

\* rawTextForVis.match(/(\d+(?:\.\d+)?)\s*SM/): the value of the leftmost match, or -1
visMatch(s) ==
  LET i == FirstOf({j \in Positions(s) : visMatchAt(s, j) >= 0})
  IN  IF i = 0 THEN -1 ELSE visMatchAt(s, i)

\* /\s(\d{4})\s/ anchored at index i
visMetersMatchAt(s, i) ==
  /\ IsSpace(At(s, i))
  /\ \A k \in 1..4 : IsDigit(At(s, i + k))
  /\ IsSpace(At(s, i + 5))

\* rawTextForVis.match(/\s(\d{4})\s/): parseFloat of group 1, or -1
visMetersMatch(s) ==
  LET i == FirstOf({j \in Positions(s) : visMetersMatchAt(s, j)})
  IN  IF i = 0 THEN -1 ELSE ParseInt(s, i + 1, 4)

\* /\b<type>(\d{3})\b/ anchored at index i
layerAt(s, i, type) ==
  /\ WordBoundary(s, i)
  /\ LitAt(s, i, type)
  /\ \A k \in 0..2 : IsDigit(At(s, i + Len(type) + k))
  /\ WordBoundary(s, i + Len(type) + 3)

BKN == <<"B", "K", "N">>
OVC == <<"O", "V", "C">>
VV == <<"V", "V">>
SCT == <<"S", "C", "T">>
FEW == <<"F", "E", "W">>
CLR == <<"C", "L", "R">>
SKC == <<"S", "K", "C">>
CAVOK == <<"C", "A", "V", "O", "K">>

\* rawTextForVis.match(/\b(BKN|OVC|VV)(\d{3})\b/g) mapped to feet: the set of the heights
ceilings(s) ==
  {ParseInt(s, p[1] + Len(p[2]), 3) * 100 :
     p \in {q \in Positions(s) \X {BKN, OVC, VV} : layerAt(s, q[1], q[2])}}

\* /\b<word>\b/ matches somewhere
wordMatch(s, word) ==
  \E i \in Positions(s) :
    WordBoundary(s, i) /\ LitAt(s, i, word) /\ WordBoundary(s, i + Len(word))

\* clearMatch without CLR among the clear-sky words
clearMatchWithoutCLR(s) == \E w \in {SKC, CAVOK} : wordMatch(s, w)

\* rawTextForVis.match(/\b(CLR|SKC|CAVOK)\b/)
clearMatch(s) == \E w \in {CLR, SKC, CAVOK} : wordMatch(s, w)

\* rawTextForVis.match(/\b(SCT|FEW)(\d{3})\b/)
scatteredMatch(s) == \E i \in Positions(s) : \E w \in {SCT, FEW} : layerAt(s, i, w)

----------------------------------------------------------------------------
(* parseFlightCategory, src/src/utils/metarParser.ts *)

\* (metar.rawOb || metar.rawText || '').toUpperCase(); an absent field is the empty string
rawTextForVis(m) == toUpperCase(IF m.rawOb # <<>> THEN m.rawOb ELSE m.rawText)

\* lines 46-63: the structured visibility
structuredVisibility(m) ==
  IF Falsy(m.visibilityStatuteMi) /\ m.visib # Undefined /\ Gt(m.visib, 0)
  THEN IF Includes(rawTextForVis(m), <<"S", "M">>)
       THEN m.visib
       ELSE Num(MetersToMiles(m.visib.v))
  ELSE m.visibilityStatuteMi

\* lines 66-82: visibilityMi after the raw text has been tried
metarVisibility(m) ==
  LET v == structuredVisibility(m)
      raw == rawTextForVis(m)
  IN  IF Falsy(v)
      THEN IF visMatch(raw) >= 0 THEN Num(visMatch(raw))
           ELSE IF visMetersMatch(raw) >= 0
                THEN Num(MetersToMiles(visMetersMatch(raw) * 1000))
                ELSE v
      ELSE v

\* metarCeiling with SCT and FEW layers counted among the ceilings
metarCeilingWithScattered(m) ==
  LET raw == rawTextForVis(m)
      heights == ceilings(raw) \cup
                 {ParseInt(raw, p[1] + 3, 3) * 100 :
                    p \in {q \in Positions(raw) \X {SCT, FEW} : layerAt(raw, q[1], q[2])}}
  IN  IF heights # {} THEN Num(MinOf(heights))
      ELSE IF clearMatch(raw) THEN Infinity
      ELSE Undefined

\* lines 84-109: ceilingFt
metarCeiling(m) ==
  LET raw == rawTextForVis(m)
  IN  IF ceilings(raw) # {} THEN Num(MinOf(ceilings(raw)))
      ELSE IF clearMatch(raw) THEN Infinity
      ELSE IF scatteredMatch(raw) THEN Infinity
      ELSE Undefined

\* lines 128-136
visCategory(v) ==
  IF Lt(v, Miles(1)) THEN LIFR
  ELSE IF Ge(v, Miles(1)) /\ Lt(v, Miles(3)) THEN IFR
  ELSE IF Ge(v, Miles(3)) /\ Lt(v, Miles(5)) THEN MVFR
  ELSE VFR

\* ceilCategory with 500 ft counted as below the IFR band
ceilCategoryInclusive(c) ==
  IF Lt(c, 501) THEN LIFR
  ELSE IF Ge(c, 500) /\ Lt(c, 1000) THEN IFR
  ELSE IF Ge(c, 1000) /\ Lt(c, 3000) THEN MVFR
  ELSE VFR

\* lines 139-147
ceilCategory(c) ==
  IF Lt(c, 500) THEN LIFR
  ELSE IF Ge(c, 500) /\ Lt(c, 1000) THEN IFR
  ELSE IF Ge(c, 1000) /\ Lt(c, 3000) THEN MVFR
  ELSE VFR

\* lines 151-157
categoryOrder(c) ==
  CASE c = LIFR -> 0
    [] c = IFR -> 1
    [] c = MVFR -> 2
    [] c = VFR -> 3
    [] c = UNKNOWN -> 4

\* worseCategory with the comparison turned round
betterCategory(vis, ceil) ==
  IF categoryOrder(vis) > categoryOrder(ceil) THEN vis ELSE ceil

\* line 159
worseCategory(vis, ceil) ==
  IF categoryOrder(vis) < categoryOrder(ceil) THEN vis ELSE ceil

\* visibilityOnlyCategory with 3 miles counted as below the MVFR band
visibilityOnlyInclusive(v) ==
  IF Lt(v, Miles(1)) THEN LIFR
  ELSE IF Ge(v, Miles(1)) /\ Lt(v, Miles(3) + 1) THEN IFR
  ELSE IF Ge(v, Miles(3)) /\ Lt(v, Miles(5)) THEN MVFR
  ELSE VFR

\* lines 164-172
visibilityOnlyCategory(v) ==
  IF Lt(v, Miles(1)) THEN LIFR
  ELSE IF Ge(v, Miles(1)) /\ Lt(v, Miles(3)) THEN IFR
  ELSE IF Ge(v, Miles(3)) /\ Lt(v, Miles(5)) THEN MVFR
  ELSE VFR

\* lines 176-184
ceilingOnlyCategory(c) ==
  IF Lt(c, 500) THEN LIFR
  ELSE IF Ge(c, 500) /\ Lt(c, 1000) THEN IFR
  ELSE IF Ge(c, 1000) /\ Lt(c, 3000) THEN MVFR
  ELSE VFR

\* noDataCategory that assumes VFR whatever the text says
noDataAssumeVFR(m) == VFR

\* lines 186-197
noDataCategory(m) ==
  IF clearMatch(rawTextForVis(m)) \/ scatteredMatch(rawTextForVis(m)) THEN VFR ELSE UNKNOWN

\* lines 120-200: the category from the parsed values
categoryFromValues(m, v, c) ==
  IF v # Undefined /\ c # Undefined THEN worseCategory(visCategory(v), ceilCategory(c))
  ELSE IF v # Undefined THEN visibilityOnlyCategory(v)
  ELSE IF c # Undefined THEN ceilingOnlyCategory(c)
  ELSE noDataCategory(m)

\* lines 17-24: the API's fltCat, used when its upper case is a FlightCategory
apiCategory(m) ==
  IF m.fltCat # <<>> /\ toUpperCase(m.fltCat) \in FlightCategoryValues
  THEN toUpperCase(m.fltCat)
  ELSE <<>>

\* lines 26-30: the record's flightCategory, returned as it stands
providedCategory(m) == m.flightCategory

\* lines 17-42: the category that ends the call before any parsing, or <<>>
explicitCategory(m) ==
  IF apiCategory(m) # <<>> THEN apiCategory(m)
  ELSE IF providedCategory(m) # <<>> THEN providedCategory(m)
  ELSE categoryMatch(rawTextForVis(m))

\* parseFlightCategory(metar)
parseFlightCategory(m) ==
  IF explicitCategory(m) # <<>> THEN explicitCategory(m)
  ELSE categoryFromValues(m, metarVisibility(m), metarCeiling(m))

----------------------------------------------------------------------------
(* determineFlightCategoryFromForecast, src/src/utils/tafParser.ts *)

\* fcst.rawOb || fcst.rawText
hasRawText(f) == f.rawOb # <<>> \/ f.rawText # <<>>

\* (fcst.rawOb || fcst.rawText || '').toUpperCase()
forecastRawText(f) == toUpperCase(IF f.rawOb # <<>> THEN f.rawOb ELSE f.rawText)

\* /(?:P)?(\d+(?:\.\d+)?)\s*SM/ anchored at index i: parseFloat of group 1, or -1
smMatchAt(s, i) ==
  IF At(s, i) = "P" /\ visMatchAt(s, i + 1) >= 0 THEN visMatchAt(s, i + 1)
  ELSE visMatchAt(s, i)

\* rawText.match(/(?:P)?(\d+(?:\.\d+)?)\s*SM/): the value of the leftmost match, or -1
smMatch(s) ==
  LET i == FirstOf({j \in Positions(s) : smMatchAt(s, j) >= 0})
  IN  IF i = 0 THEN -1 ELSE smMatchAt(s, i)

\* rawText.match(/\s(\d{4})\s/): parseFloat of group 1, or -1
metersMatch(s) ==
  LET i == FirstOf({j \in Positions(s) : visMetersMatchAt(s, j)})
  IN  IF i = 0 THEN -1 ELSE ParseInt(s, i + 1, 4)

\* rawText.match(/\b(BKN|OVC)(\d{3})\b/): parseInt of group 2 of the leftmost match, or -1
cloudMatch(s) ==
  LET i == FirstOf({j \in Positions(s) : layerAt(s, j, BKN) \/ layerAt(s, j, OVC)})
  IN  IF i = 0 THEN -1 ELSE ParseInt(s, i + 3, 3)

\* x * 0.000621371 for any number value
TimesMeterFactor(x) == IF IsNum(x) THEN Num(MetersToMiles(x.v)) ELSE x

\* lines 592-619: visibilityMi
forecastVisibility(f) ==
  IF f.visibilityStatuteMi # Undefined THEN f.visibilityStatuteMi
  ELSE IF f.visibility # Undefined
       THEN IF Lt(f.visibility, Miles(10)) THEN f.visibility
            ELSE TimesMeterFactor(f.visibility)
  ELSE IF hasRawText(f)
       THEN IF smMatch(forecastRawText(f)) >= 0 THEN Num(smMatch(forecastRawText(f)))
            ELSE IF metersMatch(forecastRawText(f)) >= 0
                 THEN Num(MetersToMiles(metersMatch(forecastRawText(f)) * 1000))
                 ELSE Undefined
  ELSE Undefined

\* lines 621-632: ceilingFt
forecastCeiling(f) ==
  IF Falsy(f.ceiling) /\ hasRawText(f) /\ cloudMatch(forecastRawText(f)) >= 0
  THEN Num(cloudMatch(forecastRawText(f)) * 100)
  ELSE f.ceiling

\* forecastVisCategory with exactly 3 miles still in the IFR band
forecastVisCategoryInclusive(v) ==
  IF Lt(v, Miles(1)) THEN LIFR
  ELSE IF Ge(v, Miles(1)) /\ ~Gt(v, Miles(3)) THEN IFR
  ELSE IF Gt(v, Miles(3)) /\ Lt(v, Miles(5)) THEN MVFR
  ELSE VFR

\* lines 642-650
forecastVisCategory(v) ==
  IF Lt(v, Miles(1)) THEN LIFR
  ELSE IF Ge(v, Miles(1)) /\ Lt(v, Miles(3)) THEN IFR
  ELSE IF Ge(v, Miles(3)) /\ Lt(v, Miles(5)) THEN MVFR
  ELSE VFR

\* lines 652-660
forecastCeilCategory(c) ==
  IF Lt(c, 500) THEN LIFR
  ELSE IF Ge(c, 500) /\ Lt(c, 1000) THEN IFR
  ELSE IF Ge(c, 1000) /\ Lt(c, 3000) THEN MVFR
  ELSE VFR

\* lines 663-670
forecastWorseCategory(vis, ceil) ==
  IF categoryOrder(vis) < categoryOrder(ceil) THEN vis ELSE ceil

\* lines 672-675
forecastVisibilityOnly(v) ==
  IF Lt(v, Miles(1)) THEN LIFR
  ELSE IF Ge(v, Miles(1)) /\ Lt(v, Miles(3)) THEN IFR
  ELSE IF Ge(v, Miles(3)) /\ Lt(v, Miles(5)) THEN MVFR
  ELSE VFR

\* forecastCeilingOnly with the IFR and MVFR bands meeting at 900 ft
forecastCeilingOnlyShifted(c) ==
  IF Lt(c, 500) THEN LIFR
  ELSE IF Ge(c, 500) /\ Lt(c, 900) THEN IFR
  ELSE IF Ge(c, 900) /\ Lt(c, 3000) THEN MVFR
  ELSE VFR

\* lines 677-680
forecastCeilingOnly(c) ==
  IF Lt(c, 500) THEN LIFR
  ELSE IF Ge(c, 500) /\ Lt(c, 1000) THEN IFR
  ELSE IF Ge(c, 1000) /\ Lt(c, 3000) THEN MVFR
  ELSE VFR

P6SM == <<"P", "6", "S", "M">>

\* lines 683-691: no visibility and no ceiling
forecastNoData(f) ==
  IF hasRawText(f) /\ (\E w \in {CLR, SKC, CAVOK, P6SM} : wordMatch(forecastRawText(f), w))
  THEN VFR
  ELSE Null

\* lines 584-590: the forecast's own flightCategory when its upper case is a FlightCategory
forecastExplicitCategory(f) ==
  IF f.flightCategory # <<>> /\ toUpperCase(f.flightCategory) \in FlightCategoryValues
  THEN toUpperCase(f.flightCategory)
  ELSE <<>>

\* lines 636-691: the category from the parsed values
forecastCategoryFromValues(f, v, c) ==
  IF v # Undefined /\ c # Undefined
  THEN forecastWorseCategory(forecastVisCategory(v), forecastCeilCategory(c))
  ELSE IF v # Undefined THEN forecastVisibilityOnly(v)
  ELSE IF c # Undefined THEN forecastCeilingOnly(c)
  ELSE forecastNoData(f)

\* determineFlightCategoryFromForecast(fcst)
determineFlightCategoryFromForecast(f) ==
  IF forecastExplicitCategory(f) # <<>> THEN forecastExplicitCategory(f)
  ELSE forecastCategoryFromValues(f, forecastVisibility(f), forecastCeiling(f))

----------------------------------------------------------------------------
(* Inputs: report texts, forecast texts and structured fields *)

\* the parts that are not empty, joined by single spaces
RECURSIVE JoinWords(_)
JoinWords(parts) ==
  IF parts = <<>> THEN <<>>
  ELSE IF Head(parts) = <<>> THEN JoinWords(Tail(parts))
  ELSE IF JoinWords(Tail(parts)) = <<>> THEN Head(parts)
  ELSE Head(parts) \o <<" ">> \o JoinWords(Tail(parts))

\* the text s with the character c for every space
Respace(s, c) == [k \in DOMAIN s |-> IF s[k] = " " THEN c ELSE s[k]]

\* the sequences over S of length at most n
SeqsUpTo(S, n) == UNION {[1..k -> S] : k \in 0..n}

\* most cloud groups in one text
MaxLayers == 2

ReportPrefix == <<"K", "X", "Y", "Z", " ", "0", "1", "0", "6", "0", "0", "Z", " ", "1", "8", "0", "1", "0", "K", "T">>
ReportEnd == <<"2", "2", "/", "1", "8", " ", "A", "2", "9", "9", "2">>
ReportRemarks ==
  {<<"R", "M", "K", " ", "L", "I", "F", "R">>,
   <<"R", "M", "K", " ", "A", "O", "2", " ", "V", "F", "R">>}

\* visibility groups: statute miles, fractions, decimals, metres
VisibilityGroups ==
   {<<>>,
    <<"1", "0", "S", "M">>,
    <<"1", "S", "M">>,
    <<"2", "S", "M">>,
    <<"3", "S", "M">>,
    <<"4", "S", "M">>,
    <<"5", "S", "M">>,
    <<"1", "/", "2", "S", "M">>,
    <<"1", "/", "4", "S", "M">>,
    <<"3", "/", "4", "S", "M">>,
    <<"1", " ", "1", "/", "2", "S", "M">>,
    <<"2", " ", "1", "/", "2", "S", "M">>,
    <<"0", "S", "M">>,
    <<"0", ".", "5", "S", "M">>,
    <<"2", ".", "5", "S", "M">>,
    <<"M", "1", "/", "4", "S", "M">>,
    <<"6", " ", "S", "M">>,
    <<"1", "\t", "S", "M">>,
    <<"1", "\t", "1", "/", "2", "S", "M">>,
    <<"0", "8", "0", "0">>,
    <<"1", "6", "0", "0">>,
    <<"4", "0", "0", "0">>,
    <<"9", "9", "9", "9">>}
\* decimals below one thousandth of a mile, fractions of two thousandths, and a
\* decimal and sums whose double lies below the number written
TinyVisibilityGroups ==
   {<<"0", ".", "0", "0", "0", "5", "S", "M">>,
    <<"0", ".", "0", "0", "0", "S", "M">>,
    <<"1", " ", "1", "/", "2", "0", "0", "0", "S", "M">>,
    <<"1", "/", "2", "0", "0", "0", "S", "M">>,
    <<"1", ".", "0", "0", "5", "S", "M">>,
    <<"1", " ", "9", "/", "2", "5", "S", "M">>,
    <<"2", " ", "1", "8", "/", "2", "5", "S", "M">>}
SomeVisibilityGroups ==
   {<<>>,
    <<"1", "S", "M">>,
    <<"1", "0", "S", "M">>,
    <<"1", "/", "2", "S", "M">>,
    <<"4", "0", "0", "0">>}
FewVisibilityGroups ==
   {<<>>,
    <<"1", "S", "M">>,
    <<"1", "0", "S", "M">>}

\* cloud groups and clear-sky markers
LayerGroups ==
   {<<"F", "E", "W", "0", "0", "8">>,
    <<"S", "C", "T", "0", "3", "0">>,
    <<"B", "K", "N", "0", "0", "4">>,
    <<"O", "V", "C", "0", "0", "5">>,
    <<"O", "V", "C", "0", "0", "9">>,
    <<"B", "K", "N", "0", "1", "0">>,
    <<"O", "V", "C", "0", "2", "0">>,
    <<"B", "K", "N", "0", "2", "9">>,
    <<"O", "V", "C", "0", "3", "0">>,
    <<"V", "V", "0", "0", "2">>}
OtherSkyGroups ==
   {<<"C", "L", "R">>,
    <<"S", "K", "C">>,
    <<"C", "A", "V", "O", "K">>,
    <<"V", "V", "/", "/", "/">>,
    <<"B", "K", "N", "0", "2", "0", "C", "B">>,
    <<"O", "V", "C", "0", "0", "5", "0">>}

\* report texts: every visibility group with at most one sky group; every sequence
\* of at most MaxLayers layer groups with a few visibility groups; some texts with a
\* flight category word in the remarks; some texts with tabs or line feeds between
\* the groups
ReportTexts ==
  {<<>>}
  \cup {JoinWords(<<ReportPrefix, v, c, r>>) :
          v \in VisibilityGroups, c \in {<<>>} \cup LayerGroups \cup OtherSkyGroups,
          r \in {<<>>, ReportEnd}}
  \cup {JoinWords(<<ReportPrefix, v>> \o ls \o <<ReportEnd>>) :
          v \in FewVisibilityGroups, ls \in SeqsUpTo(LayerGroups, MaxLayers)}
  \cup {JoinWords(<<ReportPrefix, v, c, ReportEnd, r>>) :
          v \in SomeVisibilityGroups, c \in {<<>>, <<"O", "V", "C", "0", "0", "5">>},
          r \in ReportRemarks}
  \cup {Respace(JoinWords(<<ReportPrefix, v, c>>), w) :
          v \in SomeVisibilityGroups,
          c \in {<<>>, <<"O", "V", "C", "0", "0", "5">>, <<"C", "L", "R">>},
          w \in {"\t", "\n"}}
\* texts with letters outside a-z: letters whose upper-case form is two letters or a
\* letter and a combining mark, letters whose upper-case form is an ASCII letter, and
\* letters whose upper-case form is no ASCII letter
LetterTexts ==
   {<<"ß", "m">>,
    <<"ß", "B", "K", "N", "0", "0", "4">>,
    <<"ß", "C", "L", "R">>,
    <<"ß", "V", "F", "R", " ", "1", "S", "M">>,
    <<"c", "a", "f", "é", " ", "1", "0", "s", "m">>,
    <<"µ", " ", "5", "S", "M", " ", "é", "O", "V", "C", "0", "0", "5">>,
    <<"O", "V", "C", "0", "0", "5", "ẗ">>,
    <<"3", "S", "M", " ", "O", "V", "C", "0", "0", "5", "ẗ">>,
    <<"3", "S", "M", " ", "O", "V", "C", "0", "2", "0", " ", "B", "K", "N", "0", "0", "4", "ẗ">>,
    <<"1", "S", "M", " ", "O", "V", "C", "0", "0", "5", " ", "B", "K", "N", "0", "0", "4", "ẗ">>,
    <<"C", "L", "R", "ẗ">>,
    <<"V", "F", "R", "ẗ">>,
    <<"S", "C", "T", "0", "2", "0", "ẗ">>,
    <<"3", "S", "M", " ", "O", "V", "C", "0", "0", "5", "ÿ">>,
    <<"C", "L", "R", "ÿ">>,
    <<"ǰ", " ", "2", "S", "M", " ", "S", "C", "T", "0", "2", "0", "ǰ">>,
    <<"1", "0", "s", "m", " ", "ẗ", "B", "K", "N", "0", "0", "8">>,
    <<"1", "U+017F", "m", " ", "b", "k", "n", "0", "0", "4">>,
    <<"2", "s", "m", " ", "l", "U+0131", "f", "r">>,
    <<"5", "S", "M", " ", "U+017F", "C", "T", "0", "0", "4">>,
    <<"U+FB00", " ", "4", "U+017F", "M", " ", "O", "V", "C", "0", "0", "9", "U+FB06">>}
ForecastLetterTexts ==
   {<<"ß", "B", "K", "N", "0", "2", "0">>,
    <<"ß", "C", "L", "R">>,
    <<"é", " ", "5", "s", "m", " ", "ÿ", "O", "V", "C", "0", "0", "5">>,
    <<"O", "V", "C", "0", "0", "5", "ẗ">>,
    <<"3", "S", "M", " ", "O", "V", "C", "0", "0", "5", "ẗ">>,
    <<"3", "S", "M", " ", "O", "V", "C", "0", "2", "0", " ", "B", "K", "N", "0", "0", "4", "ẗ">>,
    <<"1", "S", "M", " ", "O", "V", "C", "0", "0", "5", " ", "B", "K", "N", "0", "0", "4", "ẗ">>,
    <<"C", "L", "R", "ẗ">>,
    <<"V", "F", "R", "ẗ">>,
    <<"S", "C", "T", "0", "2", "0", "ẗ">>,
    <<"5", "S", "M", " ", "S", "C", "T", "0", "2", "0", "ẗ">>,
    <<"3", "S", "M", " ", "O", "V", "C", "0", "0", "5", "ÿ">>,
    <<"1", "U+017F", "m", " ", "b", "k", "n", "0", "0", "4">>,
    <<"2", "s", "m", " ", "l", "U+0131", "f", "r">>}
\* report texts with a clear-sky marker beside a layer group
ClearAndLayerTexts ==
  {JoinWords(<<ReportPrefix, a, b>>) :
     a \in {<<"C", "L", "R">>, <<"S", "K", "C">>},
     b \in {<<"B", "K", "N", "0", "0", "4">>, <<"O", "V", "C", "0", "2", "0">>, <<"S", "C", "T", "0", "3", "0">>}}
  \cup {JoinWords(<<ReportPrefix, b, a, ReportEnd>>) :
          a \in {<<"C", "L", "R">>},
          b \in {<<"B", "K", "N", "0", "0", "4">>, <<"V", "V", "0", "0", "2">>}}
SomeReportTexts ==
  {<<>>}
  \cup {JoinWords(<<ReportPrefix, v, c>>) :
          v \in SomeVisibilityGroups, c \in {<<>>, <<"O", "V", "C", "0", "0", "5">>, <<"C", "L", "R">>}}

\* category strings an upstream field may carry ('' when the field is absent)
CategoryStrings ==
   {<<>>,
    <<"V", "F", "R">>,
    <<"M", "V", "F", "R">>,
    <<"I", "F", "R">>,
    <<"L", "I", "F", "R">>,
    <<"U", "N", "K", "N", "O", "W", "N">>,
    <<"i", "f", "r">>,
    <<"V", "f", "r">>,
    <<"F", "O", "O">>}

StatuteMileValues ==
  {Undefined, Num(0), Num(500), Num(1000), Num(2000), Num(3000), Num(4000), Num(5000),
   Num(10000)}
\* visib: statute miles (0.5, 3, 10) or metres (800, 1600)
VisibValues == {Undefined, Num(0), Num(500), Num(3000), Num(10000), Num(800000), Num(1600000)}

Metar(fltCat, flightCategory, rawOb, rawText, visibilityStatuteMi, visib) ==
  [fltCat |-> fltCat, flightCategory |-> flightCategory, rawOb |-> rawOb,
   rawText |-> rawText, visibilityStatuteMi |-> visibilityStatuteMi, visib |-> visib]

MetarInputs ==
  {Metar(<<>>, <<>>, raw, <<>>, Undefined, Undefined) : raw \in ReportTexts}
  \cup {Metar(<<>>, <<>>, raw, <<>>, Undefined, Undefined) :
          raw \in LetterTexts \cup ClearAndLayerTexts
                  \cup {JoinWords(<<ReportPrefix, v, c>>) :
                          v \in TinyVisibilityGroups,
                          c \in {<<>>, <<"O", "V", "C", "0", "0", "5">>}}}
  \cup {Metar(<<>>, <<>>, <<>>, raw, mi, v) :
          raw \in {<<"ß", "m">>}, mi \in {Undefined, Num(0)}, v \in VisibValues}
  \cup {Metar(<<>>, <<>>, <<>>, raw, mi, Undefined) :
          raw \in SomeReportTexts, mi \in StatuteMileValues}
  \cup {Metar(<<>>, <<>>, raw, <<>>, mi, v) :
          raw \in SomeReportTexts, mi \in {Undefined, Num(0), Num(3000)}, v \in VisibValues}
  \cup {Metar(a, b, raw, <<>>, mi, Undefined) :
          a \in CategoryStrings, b \in CategoryStrings,
          raw \in {<<>>, JoinWords(<<ReportPrefix, <<"1", "S", "M">>, <<"O", "V", "C", "0", "0", "5">>>>)},
          mi \in {Undefined, Num(10000)}}

NoRecord == [t |-> "none"]

\* the weather service and the App component before anything has called them
ServiceIdle ==
  /\ airports = <<>>
  /\ metarResponse = NoRecord
  /\ tafResponse = NoRecord
  /\ promises = <<>>

AppIdle ==
  /\ clock = 0
  /\ app = NoRecord
  /\ lastRefreshTimeRef = 0
  /\ calls = <<>>
  /\ timer = 0
  /\ event = "none"
  /\ lastManualStart = -1

\* the opening words of a forecast period
PeriodHeads ==
   {<<"T", "A", "F", " ", "K", "X", "Y", "Z", " ", "0", "1", "0", "6", "0", "0", "Z", " ", "0", "1", "0", "6", "/", "0", "2", "0", "6", " ", "1", "8", "0", "1", "0", "K", "T">>,
    <<"F", "M", "0", "1", "2", "0", "0", "0", " ", "2", "2", "0", "1", "5", "G", "2", "5", "K", "T">>,
    <<"T", "E", "M", "P", "O", " ", "0", "1", "0", "6", "/", "0", "1", "0", "8">>}
ForecastVisibilityGroups == VisibilityGroups \cup {<<"P", "6", "S", "M">>}

\* forecast period texts
ForecastTexts ==
  {JoinWords(<<h, v, c>>) :
     h \in PeriodHeads, v \in ForecastVisibilityGroups,
     c \in {<<>>} \cup LayerGroups \cup OtherSkyGroups}
  \cup {JoinWords(<<<<"F", "M", "0", "1", "2", "0", "0", "0", " ", "2", "2", "0", "1", "5", "G", "2", "5", "K", "T">>, v>> \o ls) :
          v \in FewVisibilityGroups, ls \in SeqsUpTo(LayerGroups, MaxLayers)}
  \cup {Respace(JoinWords(<<h, v, c>>), "\n") :
          h \in PeriodHeads, v \in SomeVisibilityGroups,
          c \in {<<>>, <<"O", "V", "C", "0", "0", "5">>, <<"C", "L", "R">>}}
SomeForecastTexts ==
  {JoinWords(<<h, v, c>>) :
     h \in PeriodHeads, v \in SomeVisibilityGroups, c \in {<<>>, <<"O", "V", "C", "0", "0", "5">>, <<"C", "L", "R">>}}

ForecastMileValues ==
  {Undefined, NaN, Infinity, Num(0), Num(500), Num(1000), Num(2000), Num(3000), Num(4000),
   Num(5000), Num(7000)}
\* visibility: statute miles below 10, metres from 10 up
ForecastVisibilityValues ==
  {Undefined, Num(0), Num(500), Num(3000), Num(9000), Num(10000), Num(1600000), Num(8000000)}
CeilingValues ==
  {Undefined, Infinity, Num(0), Num(499), Num(500), Num(999), Num(1000), Num(2999), Num(3000)}

Forecast(flightCategory, rawOb, rawText, visibilityStatuteMi, visibility, ceiling) ==
  [flightCategory |-> flightCategory, rawOb |-> rawOb, rawText |-> rawText,
   visibilityStatuteMi |-> visibilityStatuteMi, visibility |-> visibility,
   ceiling |-> ceiling]

ForecastInputs ==
  {Forecast(<<>>, <<>>, <<>>, mi, Undefined, c) :
     mi \in ForecastMileValues, c \in CeilingValues}
  \cup {Forecast(<<>>, <<>>, <<>>, mi, v, c) :
          mi \in {Undefined, Num(3000)}, v \in ForecastVisibilityValues,
          c \in {Undefined, Num(500)}}
  \cup {Forecast(<<>>, raw, <<>>, Undefined, Undefined, Undefined) : raw \in ForecastTexts}
  \cup {Forecast(<<>>, raw, <<>>, Undefined, Undefined, Num(0)) : raw \in SomeForecastTexts}
  \cup {Forecast(<<>>, raw, <<>>, Undefined, v, c) :
          raw \in ForecastLetterTexts
                  \cup {JoinWords(<<h, v2>>) : h \in PeriodHeads, v2 \in TinyVisibilityGroups},
          v \in {Undefined, Num(9000)}, c \in {Undefined, Num(0)}}
  \cup {Forecast(<<>>, <<>>, raw, mi, Undefined, c) :
          raw \in {JoinWords(<<h, <<"1", "S", "M">>, <<"O", "V", "C", "0", "0", "5">>>>) : h \in PeriodHeads},
          mi \in {Undefined, Num(5000)}, c \in {Undefined, Num(0), Num(3000)}}
  \cup {Forecast(a, raw, <<>>, mi, Undefined, c) :
          a \in CategoryStrings,
          raw \in {<<>>} \cup {JoinWords(<<h, <<"1", "S", "M">>, <<"O", "V", "C", "0", "0", "5">>>>) : h \in PeriodHeads},
          mi \in {Undefined, Num(500)}, c \in {Undefined, Num(3000)}}

----------------------------------------------------------------------------
(* Date, as decodeTAFPeriods uses it.  A Date is its time value in whole    *)
(* minutes since 1970-01-01T00:00Z: every forecast time has zero seconds,   *)
(* and the clock is read on a whole minute.                                 *)

\* minutes in h hours and in d days
Hours(h) == h * 60
Days(d) == Hours(24 * d)

\* ECMAScript DayFromYear, InLeapYear, Day, TimeWithinDay
DayFromYear(y) ==
  365 * (y - 1970) + ((y - 1969) \div 4) - ((y - 1901) \div 100) + ((y - 1601) \div 400)
InLeapYear(y) == DayFromYear(y + 1) - DayFromYear(y) = 366
Day(t) == t \div Days(1)
TimeWithinDay(t) == t % Days(1)

\* days of the year before month m (0 = January)
MonthStart(y, m) ==
  LET lengths == <<31, IF InLeapYear(y) THEN 29 ELSE 28, 31, 30, 31, 30, 31, 31, 30, 31, 30, 31>>
      sum[k \in 0..12] == IF k = 0 THEN 0 ELSE sum[k - 1] + lengths[k]
  IN  sum[m]

\* ECMAScript MakeDay: month and date may lie outside their ranges and carry over
MakeDay(y, m, d) ==
  LET ym == y + (m \div 12)
      mn == m % 12
  IN  DayFromYear(ym) + MonthStart(ym, mn) + d - 1

\* Date.UTC(y, m, d, h, mi, 0)
DateUTC(y, m, d, h, mi) == Days(MakeDay(y, m, d)) + Hours(h) + mi

getUTCFullYear(t) ==
  CHOOSE y \in 1970..2100 : DayFromYear(y) <= Day(t) /\ Day(t) < DayFromYear(y + 1)
getUTCMonth(t) ==
  LET y == getUTCFullYear(t)
  IN  CHOOSE m \in 0..11 : MakeDay(y, m, 1) <= Day(t) /\ Day(t) < MakeDay(y, m + 1, 1)
getUTCDate(t) == Day(t) - MakeDay(getUTCFullYear(t), getUTCMonth(t), 1) + 1

\* d.setUTCDate(day); d.setUTCHours(h, mi, 0, 0); d.setUTCMonth(m): the new time value
setUTCDate(t, day) == Days(MakeDay(getUTCFullYear(t), getUTCMonth(t), day)) + TimeWithinDay(t)
setUTCHours(t, h, mi) == Days(Day(t)) + Hours(h) + mi
setUTCMonth(t, m) == Days(MakeDay(getUTCFullYear(t), m, getUTCDate(t))) + TimeWithinDay(t)

\* clock readings: the last evening of February in a leap year, the first morning of
\* March, the last day of January
ClockValues ==
  {DateUTC(2024, 1, 29, 23, 50), DateUTC(2024, 2, 1, 6, 10), DateUTC(2025, 0, 31, 0, 20)}

----------------------------------------------------------------------------
(* The classifiers as a state machine: one call on one input record *)

Init ==
  /\ ServiceIdle
  /\ AppIdle
  /\ pc = "call"
  /\ \/ metar \in MetarInputs /\ fcst = NoRecord
     \/ metar = NoRecord /\ fcst \in ForecastInputs
  /\ taf = NoRecord
  /\ now = MinOf(ClockValues)
  /\ periods = <<>>
  /\ groupText = <<>>
  /\ issueTime = Unassigned
  /\ resolved = Unassigned
  /\ visibilityMi = Unassigned
  /\ ceilingFt = Unassigned
  /\ category = <<>>

\* parseFlightCategory(metar): the locals visibilityMi and ceilingFt stay unassigned
\* when an explicit category ends the call before line 46
ParseFlightCategory ==
  /\ pc = "call"
  /\ metar # NoRecord
  /\ visibilityMi' =
       IF explicitCategory(metar) # <<>> THEN Unassigned ELSE metarVisibility(metar)
  /\ ceilingFt' =
       IF explicitCategory(metar) # <<>> THEN Unassigned ELSE metarCeiling(metar)
  /\ category' = parseFlightCategory(metar)
  /\ pc' = "return"
  /\ UNCHANGED <<serviceVars, appVars, metar, fcst, taf, now, periods, groupText, issueTime, resolved>>

\* determineFlightCategoryFromForecast(fcst)
DetermineFlightCategoryFromForecast ==
  /\ pc = "call"
  /\ fcst # NoRecord
  /\ visibilityMi' =
       IF forecastExplicitCategory(fcst) # <<>> THEN Unassigned ELSE forecastVisibility(fcst)
  /\ ceilingFt' =
       IF forecastExplicitCategory(fcst) # <<>> THEN Unassigned ELSE forecastCeiling(fcst)
  /\ category' = determineFlightCategoryFromForecast(fcst)
  /\ pc' = "return"
  /\ UNCHANGED <<serviceVars, appVars, metar, fcst, taf, now, periods, groupText, issueTime, resolved>>

Next == ParseFlightCategory \/ DetermineFlightCategoryFromForecast

Spec == Init /\ [][Next]_vars

----------------------------------------------------------------------------
(* parsePeriodData, src/src/utils/tafParser.ts lines 440-531 *)

NoMatch == [t |-> "nomatch"]

\* text.substring(a - 1, b - 1): the characters at indices a..b-1
Substring(s, a, b) == [k \in 1..(b - a) |-> s[a + k - 1]]

\* the members of a set of indices in increasing order
RECURSIVE InOrder(_)
InOrder(S) == IF S = {} THEN <<>> ELSE <<MinOf(S)>> \o InOrder(S \ {MinOf(S)})

\* matchAll, and match with the g flag: ends maps every index at which the anchored
\* pattern matches to the index after that match; the search goes on from the end of
\* the last match (one further after an empty match), so a match that begins inside
\* an earlier one is not found. The indices of the matches found from index from on.
RECURSIVE MatchAll(_, _)
MatchAll(ends, from) ==
  LET S == {i \in DOMAIN ends : i >= from}
      i == MinOf(S)
  IN  IF S = {} THEN <<>>
      ELSE <<i>> \o MatchAll(ends, IF ends[i] > i THEN ends[i] ELSE i + 1)

\* /\b(\d{3}|VRB)(\d{2,3})(?:G(\d{2,3}))?KT\b/ anchored at index i: the wind, or NoMatch
windMatchAt(s, i) ==
  LET vrb == LitAt(s, i, <<"V", "R", "B">>)
      n == IF vrb THEN DigitRun(s, i + 3) ELSE DigitRun(s, i) - 3
      a == i + 3 + n
      g == IF At(s, a) = "G" THEN DigitRun(s, a + 1) ELSE 0
      gust == g \in {2, 3} /\ LitAt(s, a + 1 + g, <<"K", "T">>) /\ WordBoundary(s, a + 3 + g)
      calm == LitAt(s, a, <<"K", "T">>) /\ WordBoundary(s, a + 2)
  IN  IF WordBoundary(s, i) /\ n \in {2, 3} /\ (gust \/ calm)
      THEN [windDir |-> IF vrb THEN Undefined ELSE Num(ParseInt(s, i, 3)),
            windSpeed |-> Num(ParseInt(s, i + 3, n)),
            windGust |-> IF gust THEN Num(ParseInt(s, a + 1, g)) ELSE Undefined]
      ELSE NoMatch

\* text.match(windMatch pattern): the leftmost match
windMatch(s) ==
  LET i == FirstOf({j \in Positions(s) : windMatchAt(s, j) # NoMatch})
  IN  IF i = 0 THEN NoMatch ELSE windMatchAt(s, i)

\* \s*SM\b from index e
smTailAt(s, e) ==
  LitAt(s, e + SpaceRun(s, e), <<"S", "M">>) /\ WordBoundary(s, e + SpaceRun(s, e) + 2)

\* /\b(?:P)?(\d+(?:\s\d+\/\d+)?|\d+\/\d+|\d+(?:\.\d+)?)\s*SM\b/ anchored at index i: the
\* alternative of group 1 that matches and where its digits lie, or NoMatch.  The
\* alternatives are tried in the order of the pattern: "N M/D" or "N", "N/D", "N.F".
periodVisGroupAt(s, i) ==
  LET j == IF At(s, i) = "P" THEN i + 1 ELSE i
      n == DigitRun(s, j)
      e == j + n
      n2 == DigitRun(s, e + 1)
      n3 == DigitRun(s, e + 2 + n2)
      group(form) == [form |-> form, j |-> j, n |-> n, e |-> e, n2 |-> n2, n3 |-> n3]
  IN  IF ~WordBoundary(s, i) \/ n = 0 THEN NoMatch
      ELSE IF IsSpace(At(s, e)) /\ n2 > 0 /\ At(s, e + 1 + n2) = "/" /\ n3 > 0
              /\ smTailAt(s, e + 2 + n2 + n3)
           THEN group("N M/D")
      ELSE IF smTailAt(s, e) THEN group("N")
      ELSE IF At(s, e) = "/" /\ n2 > 0 /\ smTailAt(s, e + 1 + n2) THEN group("N/D")
      ELSE IF At(s, e) = "." /\ n2 > 0 /\ smTailAt(s, e + 1 + n2) THEN group("N.F")
      ELSE NoMatch

\* Lines 455-467 on a match g: the visibility in thousandths of a mile (or NaN,
\* Infinity).  Between N and M/D the pattern takes any character of \s, but only a
\* space makes visStr.includes(' ') true (lines 457-460); with another one line 462
\* splits "N<\s>M/D" at the slash, and parseInt of "N<\s>M" is N.
periodVisValue(s, g) ==
  IF g = NoMatch THEN NoMatch
  ELSE IF g.form = "N M/D" /\ At(s, g.e) = " "
       THEN Plus(ParseInt(s, g.j, g.n),
                 ParseInt(s, g.e + 1, g.n2), ParseInt(s, g.e + 2 + g.n2, g.n3))
  ELSE IF g.form \in {"N M/D", "N/D"}
       THEN Divide(ParseInt(s, g.j, g.n),
                   IF g.form = "N/D" THEN ParseInt(s, g.e + 1, g.n2)
                   ELSE ParseInt(s, g.e + 2 + g.n2, g.n3))
  ELSE IF g.form = "N" THEN Num(Miles(ParseInt(s, g.j, g.n)))
  ELSE Num(ParseFloat(s, g.j, g.n, g.e + 1, g.n2))

\* the pattern anchored at index i, with lines 455-467: the visibility, or NoMatch
periodVisMatchAt(s, i) == periodVisValue(s, periodVisGroupAt(s, i))

\* text.match(visMatch pattern): the value of the leftmost match
periodVisMatchFrom(s, i) == IF i = 0 THEN NoMatch ELSE periodVisMatchAt(s, i)
periodVisMatch(s) ==
  periodVisMatchFrom(s, FirstOf({j \in Positions(s) : periodVisGroupAt(s, j) # NoMatch}))

\* /(?:^|\s)(\d{4})(?:\s|$)/ with the four digits at index j
meterMatchAt(s, j) ==
  /\ j = 1 \/ IsSpace(At(s, j - 1))
  /\ \A k \in 0..3 : IsDigit(At(s, j + k))
  /\ IsSpace(At(s, j + 4)) \/ j + 4 = Len(s) + 1

\* lines 471-485: the visibility from the leftmost four-digit group
meterVisibility(s) ==
  LET j == FirstOf({k \in Positions(s) : meterMatchAt(s, k)})
      val == ParseInt(s, j, 4)
  IN  IF j = 0 THEN Undefined
      ELSE IF val # 9999 /\ (val < 1900 \/ val > 2100) THEN Num(MetersToMiles(val * 1000))
      ELSE IF val = 9999 THEN Num(Miles(7))
      ELSE Undefined

\* lines 453-486: result.visibilityMi
visibilityOrMeters(v, s) == IF v # NoMatch THEN v ELSE meterVisibility(s)
periodVisibility(s) == visibilityOrMeters(periodVisMatch(s), s)

CloudTypes == {SKC, CLR, FEW, SCT, BKN, OVC, VV}

\* /\b(SKC|CLR|FEW|SCT|BKN|OVC|VV)(\d{3}|\/\/\/)?(?:CB|TCU)?\b/ anchored at index i:
\* group 1, group 2 ('' when it took no part) and the index after the match, or NoMatch
cloudMatchAt(s, i) ==
  LET type == IF \E w \in CloudTypes : LitAt(s, i, w)
              THEN CHOOSE w \in CloudTypes : LitAt(s, i, w) ELSE <<>>
      a == i + Len(type)
      suffix(k) == IF LitAt(s, k, <<"C", "B">>) THEN 2
                   ELSE IF LitAt(s, k, <<"T", "C", "U">>) THEN 3 ELSE 0
      \* (?:CB|TCU)?\b from index k: the index after it, or 0
      close(k) == IF suffix(k) > 0 /\ WordBoundary(s, k + suffix(k)) THEN k + suffix(k)
                  ELSE IF WordBoundary(s, k) THEN k ELSE 0
      digits == \A k \in 0..2 : IsDigit(At(s, a + k))
      slashes == LitAt(s, a, <<"/", "/", "/">>)
  IN  IF ~WordBoundary(s, i) \/ type = <<>> THEN NoMatch
      ELSE IF digits /\ close(a + 3) > 0
           THEN [type |-> type, height |-> Substring(s, a, a + 3), end |-> close(a + 3)]
      ELSE IF slashes /\ close(a + 3) > 0
           THEN [type |-> type, height |-> <<"/", "/", "/">>, end |-> close(a + 3)]
      ELSE IF close(a) > 0 THEN [type |-> type, height |-> <<>>, end |-> close(a)]
      ELSE NoMatch

\* Array.from(text.matchAll(cloud pattern)): the indices of the matches, in order
cloudMatches(s) ==
  MatchAll([i \in {j \in Positions(s) : cloudMatchAt(s, j) # NoMatch} |-> cloudMatchAt(s, i).end], 1)

\* m[2] && m[2] !== '///'
hasHeight(m) == m.height # <<>> /\ m.height # <<"/", "/", "/">>

\* lines 491-508: the entry pushed to clouds for the match at index i
cloudEntry(s, i) ==
  LET m == cloudMatchAt(s, i)
  IN  IF hasHeight(m) THEN m.type \o m.height ELSE Substring(s, i, m.end)

\* result.clouds; <<>> when the property is not set
periodClouds(s) == [k \in DOMAIN cloudMatches(s) |-> cloudEntry(s, cloudMatches(s)[k])]

\* lines 497-500: result.ceilingFt is set by the first BKN, OVC or VV match with a height
periodCeiling(s) ==
  LET i == FirstOf({j \in Range(cloudMatches(s)) :
                      /\ hasHeight(cloudMatchAt(s, j))
                      /\ cloudMatchAt(s, j).type \in {BKN, OVC, VV}})
  IN  IF i = 0 THEN Undefined ELSE Num(ParseInt(cloudMatchAt(s, i).height, 1, 3) * 100)

WxCodes ==
  {<<"M", "I">>, <<"B", "C">>, <<"D", "R">>, <<"B", "L">>, <<"S", "H">>,
   <<"T", "S">>, <<"F", "Z">>, <<"P", "R">>, <<"P", "L">>, <<"R", "A">>,
   <<"D", "Z">>, <<"S", "N">>, <<"S", "G">>, <<"G", "R">>, <<"G", "S">>,
   <<"U", "P">>, <<"B", "R">>, <<"F", "G">>, <<"F", "U">>, <<"V", "A">>,
   <<"D", "U">>, <<"S", "A">>, <<"H", "Z">>, <<"P", "Y">>, <<"P", "O">>,
   <<"S", "Q">>, <<"F", "C">>, <<"S", "S">>, <<"D", "S">>}

WxKeywords == {<<"T", "E", "M", "P", "O">>, <<"B", "E", "C", "M", "G">>, <<"P", "R", "O", "B">>, <<"A", "U", "T", "O">>, <<"N", "O", "S", "I", "G">>, <<"C", "A", "V", "O", "K">>, <<"R", "M", "K">>}

\* how many of the two-letter codes stand in a row from index k
CodeRun(s, k) ==
  CHOOSE c \in 0..Len(s) :
    /\ \A q \in 0..(c - 1) : <<At(s, k + 2 * q), At(s, k + 2 * q + 1)>> \in WxCodes
    /\ <<At(s, k + 2 * c), At(s, k + 2 * c + 1)>> \notin WxCodes

\* /\b([+-]?(?:VC)?(?:MI|BC|...|DS)+)\b/ anchored at index i: the index after the match, or 0
wxMatchAt(s, i) ==
  LET a == IF At(s, i) \in {"+", "-"} THEN i + 1 ELSE i
      b == IF LitAt(s, a, <<"V", "C">>) THEN a + 2 ELSE a
      e == b + 2 * CodeRun(s, b)
  IN  IF WordBoundary(s, i) /\ CodeRun(s, b) > 0 /\ WordBoundary(s, e) THEN e ELSE 0

\* lines 519-526: the code is kept
wxKept(code) ==
  /\ ~\E k \in WxKeywords : Includes(code, k)
  /\ At(code, 1) # "R" \/ ~\E k \in DOMAIN code : IsDigit(code[k])

\* result.weather; <<>> when the property is not set
periodWeather(s) ==
  LET wxMatches == MatchAll([i \in {j \in Positions(s) : wxMatchAt(s, j) > 0} |-> wxMatchAt(s, i)], 1)
      at == InOrder({i \in Range(wxMatches) : wxKept(Substring(s, i, wxMatchAt(s, i)))})
  IN  [k \in DOMAIN at |-> Substring(s, at[k], wxMatchAt(s, at[k]))]

\* parsePeriodData(text)
parsePeriodData(text) ==
  [windDir |-> IF windMatch(text) = NoMatch THEN Undefined ELSE windMatch(text).windDir,
   windSpeed |-> IF windMatch(text) = NoMatch THEN Undefined ELSE windMatch(text).windSpeed,
   windGust |-> IF windMatch(text) = NoMatch THEN Undefined ELSE windMatch(text).windGust,
   visibilityMi |-> periodVisibility(text),
   ceilingFt |-> periodCeiling(text),
   clouds |-> periodClouds(text),
   weather |-> periodWeather(text)]

----------------------------------------------------------------------------
(* decodeTAFPeriods, src/src/utils/tafParser.ts lines 244-438 and 556-576 *)

\* parseTAFTimeGroup that never moves to the following month
parseTAFTimeGroupNoRollForward(timeGroup, issueDate) ==
  LET day == ParseInt(timeGroup, 1, 2)
      hour == ParseInt(timeGroup, 3, 2)
      result == setUTCHours(setUTCDate(issueDate, day), hour, 0)
      issueDay == getUTCDate(issueDate)
  IN  IF day > issueDay /\ day - issueDay > 15
      THEN setUTCMonth(result, getUTCMonth(result) - 1)
      ELSE result

\* parseTAFTimeGroup(timeGroup, issueDate): DDhh in the month of issueDate, moved one
\* month when the day lies more than 15 days from the issue day
parseTAFTimeGroup(timeGroup, issueDate) ==
  LET day == ParseInt(timeGroup, 1, 2)
      hour == ParseInt(timeGroup, 3, 2)
      result == setUTCHours(setUTCDate(issueDate, day), hour, 0)
      issueDay == getUTCDate(issueDate)
  IN  IF ~(Len(timeGroup) = 4 /\ \A k \in 1..4 : IsDigit(timeGroup[k])) THEN now
      ELSE IF day < issueDay /\ issueDay - day > 15
           THEN setUTCMonth(result, getUTCMonth(result) + 1)
      ELSE IF day > issueDay /\ day - issueDay > 15
           THEN setUTCMonth(result, getUTCMonth(result) - 1)
      ELSE result

\* /(\d{4})\// anchored at index k
slashGroupAt(s, k) == (\A q \in 0..3 : IsDigit(At(s, k + q))) /\ At(s, k + 4) = "/"

\* /\d{4}\/\d{4}/ anchored at index k
rangeAt(s, k) == slashGroupAt(s, k) /\ \A q \in 5..8 : IsDigit(At(s, k + q))

\* parsePeriodStart that never moves an FM group to the preceding month
parsePeriodStartNoRollBack(typeStr, issueDate, defaultStart) ==
  LET day == ParseInt(typeStr, 3, 2)
      hour == ParseInt(typeStr, 5, 2)
      minute == ParseInt(typeStr, 7, 2)
      d == setUTCHours(setUTCDate(issueDate, day), hour, minute)
      issueDay == getUTCDate(issueDate)
      k == FirstOf({j \in Positions(typeStr) : slashGroupAt(typeStr, j)})
  IN  IF StartsWith(typeStr, <<"F", "M">>)
      THEN IF day < issueDay /\ issueDay - day > 15 THEN setUTCMonth(d, getUTCMonth(d) + 1)
           ELSE d
      ELSE IF k > 0 THEN parseTAFTimeGroup(Substring(typeStr, k, k + 4), issueDate)
      ELSE defaultStart

\* parsePeriodStart(typeStr, issueDate, defaultStart)
parsePeriodStart(typeStr, issueDate, defaultStart) ==
  LET day == ParseInt(typeStr, 3, 2)
      hour == ParseInt(typeStr, 5, 2)
      minute == ParseInt(typeStr, 7, 2)
      d == setUTCHours(setUTCDate(issueDate, day), hour, minute)
      issueDay == getUTCDate(issueDate)
      k == FirstOf({j \in Positions(typeStr) : slashGroupAt(typeStr, j)})
  IN  IF StartsWith(typeStr, <<"F", "M">>)
      THEN IF day < issueDay /\ issueDay - day > 15 THEN setUTCMonth(d, getUTCMonth(d) + 1)
           ELSE IF day > issueDay /\ day - issueDay > 15
                THEN setUTCMonth(d, getUTCMonth(d) - 1)
           ELSE d
      ELSE IF k > 0 THEN parseTAFTimeGroup(Substring(typeStr, k, k + 4), issueDate)
      ELSE defaultStart

\* taf.rawTAF || taf.rawOb || taf.rawText || ''
bulletinText(b) ==
  IF b.rawTAF # <<>> THEN b.rawTAF ELSE IF b.rawOb # <<>> THEN b.rawOb ELSE b.rawText

\* /\b(\d{6})Z\b/ anchored at index i
issueMatchAt(s, i) ==
  /\ WordBoundary(s, i)
  /\ \A k \in 0..5 : IsDigit(At(s, i + k))
  /\ At(s, i + 6) = "Z"
  /\ WordBoundary(s, i + 7)

\* lines 251-269: the issue time, in the month of the clock or the one next to it
issueDateOf(rawTAF) ==
  LET i == FirstOf({j \in Positions(rawTAF) : issueMatchAt(rawTAF, j)})
      day == ParseInt(rawTAF, i, 2)
      hour == ParseInt(rawTAF, i + 2, 2)
      minute == ParseInt(rawTAF, i + 4, 2)
      issueDate == DateUTC(getUTCFullYear(now), getUTCMonth(now), day, hour, minute)
  IN  IF i = 0 THEN now
      ELSE IF issueDate > now + Days(2)
           THEN setUTCMonth(issueDate, getUTCMonth(issueDate) - 1)
      ELSE IF issueDate < now - Days(28)
           THEN setUTCMonth(issueDate, getUTCMonth(issueDate) + 1)
      ELSE issueDate

\* /\b(\d{4})\/(\d{4})\b/ anchored at index i
validMatchAt(s, i) == WordBoundary(s, i) /\ rangeAt(s, i) /\ WordBoundary(s, i + 9)

\* rawTAF.match(/\b(\d{4})\/(\d{4})\b/): the index of the leftmost match, or 0
validMatch(rawTAF) == FirstOf({j \in Positions(rawTAF) : validMatchAt(rawTAF, j)})

\* lines 272-279
validFromOf(rawTAF, issueDate) ==
  LET i == validMatch(rawTAF)
  IN  IF i = 0 THEN issueDate
      ELSE parseTAFTimeGroup(Substring(rawTAF, i, i + 4), issueDate)
validToOf(rawTAF, issueDate) ==
  LET i == validMatch(rawTAF)
  IN  IF i = 0 THEN issueDate + Hours(24)
      ELSE parseTAFTimeGroup(Substring(rawTAF, i + 5, i + 9), issueDate)

\* periodRegex anchored at index i: the index after the match, or 0
\* /\b(FM\d{6}|TEMPO\s+\d{4}\/\d{4}|BECMG\s+\d{4}\/\d{4}|PROB\d{2}\s+\d{4}\/\d{4})\b/
periodRegexAt(s, i) ==
  LET \* \s+\d{4}\/\d{4}\b from index k
      range(k) == IF SpaceRun(s, k) > 0 /\ rangeAt(s, k + SpaceRun(s, k))
                     /\ WordBoundary(s, k + SpaceRun(s, k) + 9)
                  THEN k + SpaceRun(s, k) + 9 ELSE 0
  IN  IF ~WordBoundary(s, i) THEN 0
      ELSE IF LitAt(s, i, <<"F", "M">>)
           THEN IF (\A k \in 2..7 : IsDigit(At(s, i + k))) /\ WordBoundary(s, i + 8)
                THEN i + 8 ELSE 0
      ELSE IF LitAt(s, i, <<"T", "E", "M", "P", "O">>) \/ LitAt(s, i, <<"B", "E", "C", "M", "G">>) THEN range(i + 5)
      ELSE IF LitAt(s, i, <<"P", "R", "O", "B">>) /\ IsDigit(At(s, i + 4)) /\ IsDigit(At(s, i + 5))
           THEN range(i + 6)
      ELSE 0

\* Array.from(rawTAF.matchAll(periodRegex)): the indices of the matches, in order
periodMatches(rawTAF) ==
  MatchAll([i \in {j \in Positions(rawTAF) : periodRegexAt(rawTAF, j) > 0} |-> periodRegexAt(rawTAF, i)], 1)

\* matches[k][0]
typeStrOf(rawTAF, k) ==
  Substring(rawTAF, periodMatches(rawTAF)[k], periodRegexAt(rawTAF, periodMatches(rawTAF)[k]))

\* the span of a period cut one character short
periodTextShort(rawTAF, k) ==
  LET matches == periodMatches(rawTAF)
      startIdx == IF k = 0 THEN 1 ELSE matches[k]
      endIdx == IF k < Len(matches) THEN matches[k + 1] ELSE Len(rawTAF) + 1
  IN  Substring(rawTAF, startIdx, Max(startIdx, endIdx - 1))

\* lines 292, 320-321: the text of the initial period (k = 0) and of the k-th change group
periodText(rawTAF, k) ==
  LET matches == periodMatches(rawTAF)
      startIdx == IF k = 0 THEN 1 ELSE matches[k]
      endIdx == IF k < Len(matches) THEN matches[k + 1] ELSE Len(rawTAF) + 1
  IN  Substring(rawTAF, startIdx, endIdx)

\* the initial period started at the issue time
periodFromOfIssue(rawTAF, k, issueDate, validFrom) ==
  IF k = 0 THEN issueDate
  ELSE parsePeriodStart(typeStrOf(rawTAF, k), issueDate, validFrom)

\* lines 295-298 and 327: the start of the k-th period
periodFromOf(rawTAF, k, issueDate, validFrom) ==
  IF k = 0 THEN validFrom
  ELSE parsePeriodStart(typeStrOf(rawTAF, k), issueDate, validFrom)

\* every period ended at the start of the group that follows it in the text
periodToOfNextGroup(rawTAF, k, issueDate, validFrom, validTo) ==
  IF k < Len(periodMatches(rawTAF))
  THEN parsePeriodStart(typeStrOf(rawTAF, k + 1), issueDate, validFrom)
  ELSE validTo

\* lines 295-298 and 330-385: the end of the k-th period
periodToOf(rawTAF, k, issueDate, validFrom, validTo) ==
  LET n == Len(periodMatches(rawTAF))
      typeStr == typeStrOf(rawTAF, k)
      laterFM == {j \in (k + 1)..n : StartsWith(typeStrOf(rawTAF, j), <<"F", "M">>)}
      parts == FirstOf({j \in Positions(typeStr) : rangeAt(typeStr, j)})
  IN  IF k = 0
      THEN IF n > 0 THEN parsePeriodStart(typeStrOf(rawTAF, 1), issueDate, validFrom)
           ELSE validTo
      ELSE IF StartsWith(typeStr, <<"F", "M">>)
           THEN IF laterFM # {}
                THEN parsePeriodStart(typeStrOf(rawTAF, MinOf(laterFM)), issueDate, validFrom)
                ELSE validTo
      ELSE IF parts > 0
           THEN parseTAFTimeGroup(Substring(typeStr, parts + 5, parts + 9), issueDate)
      ELSE periodFromOf(rawTAF, k, issueDate, validFrom)

\* lines 300-313 and 387-405: one decoded period; the category is computed from the
\* text and the parsed visibility and ceiling
periodOf(validTimeFrom, validTimeTo, text, data) ==
  [validTimeFrom |-> validTimeFrom,
   validTimeTo |-> validTimeTo,
   flightCategory |->
     determineFlightCategoryFromForecast(
       Forecast(<<>>, text, <<>>, data.visibilityMi, Undefined, data.ceilingFt)),
   rawText |-> text,
   windDir |-> data.windDir,
   windSpeed |-> data.windSpeed,
   windGust |-> data.windGust,
   visibilityMi |-> data.visibilityMi,
   ceilingFt |-> data.ceilingFt,
   clouds |-> data.clouds,
   weather |-> data.weather]
DecodedTAFPeriod(validTimeFrom, validTimeTo, text) ==
  periodOf(validTimeFrom, validTimeTo, text, parsePeriodData(text))

\* the periods left in the order of the text
unsortedPeriods(ps) == ps

\* periods.sort((a, b) => a.validTimeFrom.getTime() - b.validTimeFrom.getTime()); the
\* sort keeps the order of periods that start together
RECURSIVE sortPeriods(_)
sortPeriods(ps) ==
  IF ps = <<>> THEN <<>>
  ELSE LET front == sortPeriods(SubSeq(ps, 1, Len(ps) - 1))
           p == ps[Len(ps)]
           k == Cardinality({j \in DOMAIN front : front[j].validTimeFrom <= p.validTimeFrom})
       IN  SubSeq(front, 1, k) \o <<p>> \o SubSeq(front, k + 1, Len(front))

NullRecord == [t |-> "null"]

\* decodeTAFPeriods(taf)
decodeTAFPeriods(b) ==
  IF b = NullRecord THEN <<>>
  ELSE IF bulletinText(b) = <<>> THEN <<>>
  ELSE LET rawTAF == bulletinText(b)
           issueDate == issueDateOf(rawTAF)
           validFrom == validFromOf(rawTAF, issueDate)
           validTo == validToOf(rawTAF, issueDate)
       IN  sortPeriods([k \in 1..(Len(periodMatches(rawTAF)) + 1) |->
             DecodedTAFPeriod(periodFromOf(rawTAF, k - 1, issueDate, validFrom),
                              periodToOf(rawTAF, k - 1, issueDate, validFrom, validTo),
                              periodText(rawTAF, k - 1))])

----------------------------------------------------------------------------
(* Inputs of decodeTAFPeriods: bulletins and clock readings *)

\* most change groups in one bulletin
MaxChanges == 2

\* bulletin headers: issue time and validity, month end, no issue time
BulletinHeaders ==
   {<<"T", "A", "F", " ", "K", "X", "Y", "Z", " ", "0", "1", "0", "5", "3", "0", "Z", " ", "0", "1", "0", "6", "/", "0", "2", "0", "6">>,
    <<"T", "A", "F", " ", "K", "X", "Y", "Z", " ", "3", "0", "2", "3", "3", "0", "Z", " ", "3", "1", "0", "0", "/", "0", "1", "0", "6">>,
    <<"K", "X", "Y", "Z", " ", "0", "1", "0", "6", "/", "0", "2", "0", "6">>}

\* the conditions of one period ('' for none)
PeriodBodies ==
   {<<>>,
    <<"1", "8", "0", "1", "0", "K", "T", " ", "P", "6", "S", "M", " ", "S", "C", "T", "0", "3", "0">>,
    <<"V", "R", "B", "0", "3", "K", "T", " ", "1", "/", "2", "S", "M", " ", "F", "G", " ", "O", "V", "C", "0", "0", "2">>,
    <<"1", "8", "0", "1", "0", "G", "2", "5", "K", "T", " ", "1", " ", "1", "/", "2", "S", "M", " ", "-", "R", "A", " ", "B", "K", "N", "0", "0", "8", " ", "O", "V", "C", "0", "2", "0">>,
    <<"4", "0", "0", "0", " ", "B", "R", " ", "O", "V", "C", "0", "2", "0", " ", "B", "K", "N", "0", "1", "0">>,
    <<"P", "6", "S", "M", " ", "O", "V", "C", "0", "2", "0", " ", "B", "K", "N", "0", "0", "8">>,
    <<"9", "9", "9", "9", " ", "F", "E", "W", "0", "2", "0">>,
    <<"2", "S", "M", " ", "B", "R", " ", "V", "V", "/", "/", "/">>,
    <<"2", "2", "0", "1", "2", "K", "T">>,
    <<"3", "S", "M", " ", "V", "V", "0", "0", "2", " ", "O", "V", "C", "0", "1", "0">>,
    <<"C", "A", "V", "O", "K">>,
    <<"3", "S", "M", " ", "B", "R", " ", "S", "C", "T", "0", "0", "8">>,
    <<"1", "8", "0", "1", "0", "K", "T", " ", "F", "E", "W", "0", "0", "5">>,
    <<"1", "/", "0", "S", "M">>,
    <<"0", "/", "0", "S", "M", " ", "V", "C", "S", "H", " ", "B", "K", "N", "0", "2", "0", "C", "B">>,
    <<"P", "6", "S", "M", " ", "+", "T", "S", "R", "A", " ", "S", "C", "T", "0", "3", "0", "T", "C", "U">>,
    <<"6", "S", "M", "-", "R", "A", " ", "B", "R">>,
    <<"1", "\t", "1", "/", "2", "S", "M", "\n", "B", "K", "N", "0", "0", "8">>,
    <<"0", ".", "0", "0", "0", "5", "S", "M">>,
    <<"1", " ", "1", "/", "2", "0", "0", "0", "S", "M", " ", "B", "K", "N", "0", "0", "8">>,
    <<"5", "s", "m", " ", "ß", "B", "K", "N", "0", "2", "0">>,
    <<"3", "S", "M", " ", "O", "V", "C", "0", "0", "5", "ẗ">>,
    <<"1", "U+017F", "m", " ", "b", "k", "n", "0", "0", "4", "ÿ">>,
    <<"1", " ", "9", "/", "2", "5", "S", "M", " ", "O", "V", "C", "0", "2", "0">>,
    <<"1", "8", "0", "1", "0", "K", "T", " ", "2", " ", "1", "8", "/", "2", "5", "S", "M", " ", "B", "K", "N", "0", "0", "8">>,
    <<"1", ".", "0", "0", "5", "S", "M", " ", "B", "R">>}

\* the keywords that open a change group
ChangeHeads ==
   {<<"F", "M", "0", "1", "2", "0", "0", "0">>,
    <<"F", "M", "0", "2", "0", "3", "0", "0">>,
    <<"T", "E", "M", "P", "O", " ", "0", "1", "0", "8", "/", "0", "1", "1", "2">>,
    <<"B", "E", "C", "M", "G", " ", "0", "2", "0", "0", "/", "0", "2", "0", "2">>,
    <<"P", "R", "O", "B", "3", "0", " ", "0", "1", "1", "0", "/", "0", "1", "1", "4">>,
    <<"P", "R", "O", "B", "4", "0", " ", "T", "E", "M", "P", "O", " ", "0", "1", "2", "0", "/", "0", "1", "2", "4">>}

\* whole change groups
SomeChanges ==
   {<<"F", "M", "0", "1", "2", "0", "0", "0", " ", "2", "2", "0", "1", "5", "G", "2", "5", "K", "T", " ", "P", "6", "S", "M", " ", "S", "C", "T", "0", "3", "0">>,
    <<"F", "M", "0", "2", "0", "3", "0", "0", " ", "V", "R", "B", "0", "3", "K", "T", " ", "2", "S", "M", " ", "B", "R", " ", "O", "V", "C", "0", "0", "8">>,
    <<"T", "E", "M", "P", "O", " ", "0", "1", "0", "8", "/", "0", "1", "1", "2", " ", "1", "/", "2", "S", "M", " ", "F", "G">>,
    <<"B", "E", "C", "M", "G", " ", "0", "2", "0", "0", "/", "0", "2", "0", "2", " ", "4", "0", "0", "0", " ", "B", "K", "N", "0", "1", "0">>,
    <<"P", "R", "O", "B", "3", "0", " ", "0", "1", "1", "0", "/", "0", "1", "1", "4", " ", "3", "S", "M", " ", "T", "S", "R", "A", " ", "O", "V", "C", "0", "2", "0", " ", "B", "K", "N", "0", "1", "0">>,
    <<"F", "M", "3", "1", "0", "9", "0", "0", " ", "1", "8", "0", "1", "0", "K", "T">>}

Bulletin(rawTAF, rawOb, rawText) ==
  [rawTAF |-> rawTAF, rawOb |-> rawOb, rawText |-> rawText, fcsts |-> Undefined]

\* every body as the initial period and in one change group under every keyword
ContentBulletins ==
  {JoinWords(<<<<"T", "A", "F", " ", "K", "X", "Y", "Z", " ", "0", "1", "0", "5", "3", "0", "Z", " ", "0", "1", "0", "6", "/", "0", "2", "0", "6">>, b>>) : b \in PeriodBodies}
  \cup {JoinWords(<<<<"T", "A", "F", " ", "K", "X", "Y", "Z", " ", "0", "1", "0", "5", "3", "0", "Z", " ", "0", "1", "0", "6", "/", "0", "2", "0", "6">>, <<"1", "8", "0", "1", "0", "K", "T", " ", "P", "6", "S", "M", " ", "S", "C", "T", "0", "3", "0">>, h, b>>) : h \in ChangeHeads, b \in PeriodBodies}

\* every header with every sequence of at most MaxChanges change groups
StructureBulletins ==
  {JoinWords(<<h, <<"1", "8", "0", "1", "0", "K", "T", " ", "P", "6", "S", "M", " ", "S", "C", "T", "0", "3", "0">>>> \o cs) : h \in BulletinHeaders, cs \in SeqsUpTo(SomeChanges, MaxChanges)}

\* the bulletin of the specification's example
ExampleBulletin ==
  <<"T", "A", "F", " ", "K", "X", "Y", "Z", " ", "0", "1", "0", "6", "0", "0", "Z", " ", "0", "1", "0", "6", "/", "0", "2", "0", "6", " ", "1", "8", "0", "1", "0", "K", "T", " ", "P", "6", "S", "M", " ", "F", "E", "W", "2", "5", "0", " ", "F", "M", "0", "1", "2", "0", "0", "0", " ", "2", "2", "0", "1", "5", "G", "2", "5", "K", "T", " ", "3", "S", "M", " ", "B", "K", "N", "0", "1", "5">>

\* a bulletin with a BECMG group between two FM groups
InterleavedBulletin ==
  <<"T", "A", "F", " ", "K", "X", "Y", "Z", " ", "0", "1", "0", "5", "3", "0", "Z", " ", "0", "1", "0", "6", "/", "0", "2", "0", "6", " ", "1", "8", "0", "1", "0", "K", "T", " ", "P", "6", "S", "M", " ", "S", "C", "T", "0", "3", "0", " ", "F", "M", "0", "1", "2", "0", "0", "0", " ", "2", "2", "0", "1", "5", "G", "2", "5", "K", "T", " ", "P", "6", "S", "M", " ", "S", "C", "T", "0", "3", "0", " ", "B", "E", "C", "M", "G", " ", "0", "2", "0", "0", "/", "0", "2", "0", "2", " ", "4", "0", "0", "0", " ", "B", "R", " ", "B", "K", "N", "0", "1", "0", " ", "F", "M", "0", "2", "0", "3", "0", "0", " ", "V", "R", "B", "0", "3", "K", "T", " ", "2", "S", "M", " ", "B", "R", " ", "O", "V", "C", "0", "0", "8">>

TafInputs ==
  {NullRecord, Bulletin(<<>>, <<>>, <<>>), Bulletin(ExampleBulletin, <<>>, <<>>),
   Bulletin(InterleavedBulletin, <<>>, <<>>)}
  \cup {Bulletin(Respace(raw, w), <<>>, <<>>) :
          raw \in {ExampleBulletin, InterleavedBulletin}, w \in {"\t", "\n"}}
  \cup {Bulletin(raw, <<>>, <<>>) : raw \in ContentBulletins \cup StructureBulletins}
  \cup {Bulletin(<<>>, raw, <<>>) : raw \in {JoinWords(<<<<"T", "A", "F", " ", "K", "X", "Y", "Z", " ", "0", "1", "0", "5", "3", "0", "Z", " ", "0", "1", "0", "6", "/", "0", "2", "0", "6">>, b>>) : b \in PeriodBodies}}
  \cup {Bulletin(<<>>, <<>>, JoinWords(<<<<"T", "A", "F", " ", "K", "X", "Y", "Z", " ", "0", "1", "0", "5", "3", "0", "Z", " ", "0", "1", "0", "6", "/", "0", "2", "0", "6">>, <<"1", "8", "0", "1", "0", "K", "T", " ", "P", "6", "S", "M", " ", "S", "C", "T", "0", "3", "0">>>>))}

----------------------------------------------------------------------------
(* The bulletin decoder as a state machine: one call on one bulletin *)

InitBulletin ==
  /\ ServiceIdle
  /\ AppIdle
  /\ pc = "call"
  /\ metar = NoRecord
  /\ fcst = NoRecord
  /\ taf \in TafInputs
  /\ now \in ClockValues
  /\ periods = <<>>
  /\ groupText = <<>>
  /\ issueTime = Unassigned
  /\ resolved = Unassigned
  /\ visibilityMi = Unassigned
  /\ ceilingFt = Unassigned
  /\ category = <<>>

DecodeTAFPeriods ==
  /\ pc = "call"
  /\ taf # NoRecord
  /\ periods' = decodeTAFPeriods(taf)
  /\ pc' = "return"
  /\ UNCHANGED <<serviceVars, appVars, metar, fcst, taf, now, visibilityMi, ceilingFt, category, groupText, issueTime, resolved>>

\* the overlay decodes airportData.taf again on every render (AirportOverlay.tsx line
\* 541): a later render calls decodeTAFPeriods on the same bulletin at a later wall
\* clock; the periods of the render before stay on screen until it returns
Render ==
  /\ pc = "return"
  /\ taf # NoRecord
  /\ now' \in {t \in ClockValues : t > now}
  /\ pc' = "call"
  /\ UNCHANGED <<serviceVars, appVars, taf, periods, metar, fcst, visibilityMi, ceilingFt, category, groupText, issueTime, resolved>>

NextBulletin == DecodeTAFPeriods \/ Render

SpecBulletin == InitBulletin /\ [][NextBulletin]_vars

----------------------------------------------------------------------------
(* The classifiers on reports and on forecast periods as decodeTAFPeriods hands *)
(* them over: lines 308-312 and 401-405 pass the text of the period with the    *)
(* visibility and the ceiling parsePeriodData found in it.                      *)

forecastOf(text, data) ==
  Forecast(<<>>, text, <<>>, data.visibilityMi, Undefined, data.ceilingFt)
periodForecast(text) == forecastOf(text, parsePeriodData(text))

\* the periods of the bulletins with one change group
PeriodForecasts ==
  {periodForecast(periodText(p[1], p[2])) :
     p \in {q \in ContentBulletins \X {0, 1} : q[2] <= Len(periodMatches(q[1]))}}

InitPeriod ==
  /\ ServiceIdle
  /\ AppIdle
  /\ pc = "call"
  /\ \/ metar \in MetarInputs /\ fcst = NoRecord
     \/ metar = NoRecord /\ fcst \in PeriodForecasts
  /\ taf = NoRecord
  /\ now = MinOf(ClockValues)
  /\ periods = <<>>
  /\ groupText = <<>>
  /\ issueTime = Unassigned
  /\ resolved = Unassigned
  /\ visibilityMi = Unassigned
  /\ ceilingFt = Unassigned
  /\ category = <<>>

SpecPeriod == InitPeriod /\ [][Next]_vars

----------------------------------------------------------------------------
(* getNextTAFCondition, src/src/utils/tafParser.ts lines 188-222.  The forecast  *)
(* periods taf.fcsts carry their window in seconds since 1970.                   *)

\* Math.floor(Date.now() / 1000)
nowSeconds == now * 60

\* fcst.validTimeFrom || 0 and fcst.validTimeTo || Infinity
validFromOrZero(f) == IF Falsy(f.validTimeFrom) THEN Num(0) ELSE f.validTimeFrom
validToOrInfinity(f) == IF Falsy(f.validTimeTo) THEN Infinity ELSE f.validTimeTo

\* line 201: the period is in the future or currently active
inFutureOrActive(f) ==
  \/ Ge(validFromOrZero(f), nowSeconds)
  \/ ~Gt(validFromOrZero(f), nowSeconds) /\ Ge(validToOrInfinity(f), nowSeconds)

\* an array value, as Num(n) is a number value
Array(items) == [t |-> "array", v |-> items]

\* !taf || !taf.fcsts || taf.fcsts.length === 0
noForecasts(b) == b = NullRecord \/ b.fcsts = Undefined \/ b.fcsts.v = <<>>

\* lines 196-209: the periods at which the loop returns: in the future or active, and
\* with a category that is not null
returningPeriods(fcsts) ==
  {k \in DOMAIN fcsts :
     inFutureOrActive(fcsts[k]) /\ determineFlightCategoryFromForecast(fcsts[k]) # Null}

\* lines 211-221 with the first period in place of the last
firstPeriodCategory(fcsts) == determineFlightCategoryFromForecast(fcsts[1])

\* lines 211-221: the category of the last period, null when it has none
lastPeriodCategory(fcsts) == determineFlightCategoryFromForecast(fcsts[Len(fcsts)])

\* lines 193-221
nextCondition(fcsts) ==
  IF returningPeriods(fcsts) # {}
  THEN determineFlightCategoryFromForecast(fcsts[MinOf(returningPeriods(fcsts))])
  ELSE lastPeriodCategory(fcsts)

\* getNextTAFCondition answering UNKNOWN for a bulletin without periods
getNextTAFConditionOrUnknown(b) == IF noForecasts(b) THEN UNKNOWN ELSE nextCondition(b.fcsts.v)

\* getNextTAFCondition(taf)
getNextTAFCondition(b) == IF noForecasts(b) THEN Null ELSE nextCondition(b.fcsts.v)

----------------------------------------------------------------------------
(* Inputs of getNextTAFCondition: period sequences and clock readings *)

\* most periods in taf.fcsts
MaxPeriods == 3

\* the seconds of a Date
Seconds(t) == t * 60

\* a forecast period of taf.fcsts
TimedForecast(validTimeFrom, validTimeTo, f) ==
  [validTimeFrom |-> validTimeFrom, validTimeTo |-> validTimeTo] @@ f

\* windows on 2024-03-01: 06-12, 12-18, 18-24, and a period without times
PeriodWindows ==
  {<<Num(Seconds(DateUTC(2024, 2, 1, 6, 0))), Num(Seconds(DateUTC(2024, 2, 1, 12, 0)))>>,
   <<Num(Seconds(DateUTC(2024, 2, 1, 12, 0))), Num(Seconds(DateUTC(2024, 2, 1, 18, 0)))>>,
   <<Num(Seconds(DateUTC(2024, 2, 1, 18, 0))), Num(Seconds(DateUTC(2024, 2, 2, 0, 0)))>>,
   <<Undefined, Undefined>>}

\* the weather of a period: 6 miles, an 800 ft ceiling, nothing
PeriodWeather ==
  {Forecast(<<>>, <<>>, <<>>, Num(Miles(6)), Undefined, Undefined),
   Forecast(<<>>, <<>>, <<>>, Undefined, Undefined, Num(800)),
   Forecast(<<>>, <<>>, <<>>, Undefined, Undefined, Undefined)}
\* a text whose layer group ends in a long s, a letter outside a-z with the upper-case
\* form S
LetterWeather ==
  Forecast(<<>>, <<"O", "V", "C", "0", "0", "5", "U+017F">>, <<>>, Undefined, Undefined, Undefined)

TimedForecasts ==
  {TimedForecast(w[1], w[2], f) : w \in PeriodWindows, f \in PeriodWeather}
  \cup {TimedForecast(Num(Seconds(DateUTC(2024, 2, 1, 6, 0))),
                       Num(Seconds(DateUTC(2024, 2, 1, 12, 0))), LetterWeather)}

\* a bulletin with the periods fcsts
TafWithForecasts(fcsts) == [Bulletin(<<>>, <<>>, <<>>) EXCEPT !.fcsts = Array(fcsts)]

QueryInputs ==
  {NullRecord, Bulletin(<<>>, <<>>, <<>>)}
  \cup {TafWithForecasts(fs) : fs \in SeqsUpTo(TimedForecasts, MaxPeriods)}

\* clock readings before, at the edges of, inside and after the windows
QueryClockValues ==
  {DateUTC(2024, 1, 29, 23, 50), DateUTC(2024, 2, 1, 6, 10), DateUTC(2024, 2, 1, 12, 0),
   DateUTC(2024, 2, 1, 18, 1), DateUTC(2025, 0, 31, 0, 20)}

----------------------------------------------------------------------------
(* The query as a state machine: one call on one bulletin *)

InitQuery ==
  /\ ServiceIdle
  /\ AppIdle
  /\ pc = "call"
  /\ metar = NoRecord
  /\ fcst = NoRecord
  /\ taf \in QueryInputs
  /\ now \in QueryClockValues
  /\ periods = <<>>
  /\ groupText = <<>>
  /\ issueTime = Unassigned
  /\ resolved = Unassigned
  /\ visibilityMi = Unassigned
  /\ ceilingFt = Unassigned
  /\ category = <<>>

GetNextTAFCondition ==
  /\ pc = "call"
  /\ taf # NoRecord
  /\ category' = getNextTAFCondition(taf)
  /\ pc' = "return"
  /\ UNCHANGED <<serviceVars, appVars, metar, fcst, taf, now, periods, visibilityMi, ceilingFt, groupText, issueTime, resolved>>

NextQuery == GetNextTAFCondition

SpecQuery == InitQuery /\ [][NextQuery]_vars

----------------------------------------------------------------------------
(* The time anchoring of parseTAFTimeGroup and parsePeriodStart as a state         *)
(* machine: one call on one time group and one issue date                          *)

\* issue dates: the first, middle and last days of months of 28, 29, 30 and 31 days,
\* at 05:30
IssueDates ==
  {DateUTC(ym[1], ym[2], d, 5, 30) :
     ym \in {<<2024, 0>>, <<2024, 1>>, <<2024, 2>>, <<2024, 3>>, <<2024, 11>>,
             <<2025, 1>>, <<2025, 2>>},
     d \in {1, 2, 14, 15, 16, 17, 28}}
  \cup {DateUTC(2024, 0, 30, 5, 30), DateUTC(2024, 0, 31, 5, 30), DateUTC(2024, 1, 29, 5, 30),
        DateUTC(2024, 2, 30, 5, 30), DateUTC(2024, 2, 31, 5, 30), DateUTC(2024, 3, 29, 5, 30),
        DateUTC(2024, 3, 30, 5, 30), DateUTC(2024, 11, 30, 5, 30),
        DateUTC(2024, 11, 31, 5, 30), DateUTC(2025, 2, 31, 5, 30)}

\* two digits
TwoDigits(n) == <<DigitChars[(n \div 10) + 1], DigitChars[(n % 10) + 1]>>

\* DDhh groups: every day of the month at 00, 12 and 24 hours
TimeGroups == {TwoDigits(d) \o TwoDigits(h) : d \in 1..31, h \in {0, 12, 24}}

\* FMDDhhmm groups, and a TEMPO group for every day
ChangeTypeStrs ==
  {<<"F", "M">> \o TwoDigits(d) \o TwoDigits(h) \o TwoDigits(mi) :
     d \in 1..31, h \in {0, 23}, mi \in {0, 30}}
  \cup {<<"T", "E", "M", "P", "O", " ">> \o TwoDigits(d) \o <<"0", "6", "/">> \o TwoDigits(d) \o <<"1", "2">> :
          d \in 1..31}

InitAnchor ==
  /\ ServiceIdle
  /\ AppIdle
  /\ pc = "call"
  /\ metar = NoRecord
  /\ fcst = NoRecord
  /\ taf = NoRecord
  /\ now = MinOf(ClockValues)
  /\ periods = <<>>
  /\ groupText \in TimeGroups \cup ChangeTypeStrs
  /\ issueTime \in IssueDates
  /\ resolved = Unassigned
  /\ visibilityMi = Unassigned
  /\ ceilingFt = Unassigned
  /\ category = <<>>

ParseTAFTimeGroup ==
  /\ pc = "call"
  /\ groupText \in TimeGroups
  /\ resolved' = parseTAFTimeGroup(groupText, issueTime)
  /\ pc' = "return"
  /\ UNCHANGED <<serviceVars, appVars, metar, fcst, taf, now, periods, groupText, issueTime, visibilityMi,
                 ceilingFt, category>>

\* parsePeriodStart(typeStr, issueDate, defaultStart) with the issue date as the default
ParsePeriodStart ==
  /\ pc = "call"
  /\ groupText \in ChangeTypeStrs
  /\ resolved' = parsePeriodStart(groupText, issueTime, issueTime)
  /\ pc' = "return"
  /\ UNCHANGED <<serviceVars, appVars, metar, fcst, taf, now, periods, groupText, issueTime, visibilityMi,
                 ceilingFt, category>>

NextAnchor == ParseTAFTimeGroup \/ ParsePeriodStart

SpecAnchor == InitAnchor /\ [][NextAnchor]_vars

----------------------------------------------------------------------------
(* fetchMETARs, src/src/services/metarService.ts.  fetch(url) either rejects *)
(* or gives a response with an ok flag and a body; response.json() rejects   *)
(* for a body that is no JSON, and gives the parsed value otherwise.         *)

parserVars == <<pc, metar, fcst, visibilityMi, ceilingFt, category, taf, now, periods,
                groupText, issueTime, resolved>>

\* the parsers before anything has called them
ParserIdle ==
  /\ metar = NoRecord
  /\ fcst = NoRecord
  /\ taf = NoRecord
  /\ now = MinOf(ClockValues)
  /\ periods = <<>>
  /\ groupText = <<>>
  /\ issueTime = Unassigned
  /\ resolved = Unassigned
  /\ visibilityMi = Unassigned
  /\ ceilingFt = Unassigned
  /\ category = <<>>

Rejected == [t |-> "rejected"]
HttpResponse(ok, body) == [t |-> "response", ok |-> ok, body |-> body]
Unparseable == [t |-> "unparseable"]
Json(v) == [t |-> "json", v |-> v]
JsonNull == [t |-> "jsonnull"]
JsonNumber(n) == [t |-> "jsonnumber", v |-> n]
JsonObject(data) == [t |-> "object", data |-> data]

\* an exception thrown inside a try block
Thrown == [t |-> "thrown"]

\* one element of the data of a response: the ids and the report or bulletin itself
StationData(icaoId, stationId, report) ==
  [icaoId |-> icaoId, stationId |-> stationId, report |-> report]

\* Array.isArray(responseData) ? responseData : (responseData.data || []); reading
\* .data of null throws, a number has no .data, and a .data that is absent, null or 0
\* gives []
dataOf(responseData) ==
  IF responseData.t = "array" THEN responseData
  ELSE IF responseData = JsonNull THEN Thrown
  ELSE IF responseData.t # "object" THEN Array(<<>>)
  ELSE IF responseData.data \in {Undefined, JsonNull, JsonNumber(0)} THEN Array(<<>>)
  ELSE responseData.data

\* (x.icaoId || x.stationId || '').toUpperCase()
stationIdOf(x) == toUpperCase(IF x.icaoId # <<>> THEN x.icaoId ELSE x.stationId)

\* data.forEach(...) throws at a null element and when data is no array
forEachThrows(data) ==
  \/ data = Thrown
  \/ data.t # "array"
  \/ \E k \in DOMAIN data.v : data.v[k] = NullRecord

\* the elements data.forEach(...) has put into the map when it ends or throws, in
\* the order of the data
mapEntries(data) ==
  IF data = Thrown \/ data.t # "array" THEN <<>>
  ELSE LET stop == FirstOf({k \in DOMAIN data.v : data.v[k] = NullRecord})
           n == IF stop = 0 THEN Len(data.v) ELSE stop - 1
       IN  SubSeq(data.v, 1, n)

\* map.get(icao) || null: the last element set under the key
mapGet(entries, icao) ==
  LET hits == {k \in DOMAIN entries :
                 stationIdOf(entries[k]) # <<>> /\ stationIdOf(entries[k]) = icao}
  IN  IF hits = {} THEN NullRecord ELSE entries[CHOOSE k \in hits : \A j \in hits : j <= k].report

\* lines 35-76: fetchTAFs gives the map it has filled, empty when the request is
\* rejected, the status is not OK or the body is no JSON
fetchTAFs(response) ==
  IF response = Rejected THEN <<>>
  ELSE IF ~response.ok THEN <<>>
  ELSE IF response.body = Unparseable THEN <<>>
  ELSE mapEntries(dataOf(response.body.v))

AirportMETAR(airport, stationMetar, stationTaf, flightCategory) ==
  [airport |-> airport, metar |-> stationMetar, taf |-> stationTaf,
   flightCategory |-> flightCategory]

\* lines 157-162
fallbackResult(as) ==
  [k \in DOMAIN as |-> AirportMETAR(as[k], NullRecord, NullRecord, UNKNOWN)]

\* lines 130-149
matchAirports(as, metarMap, tafMap) ==
  [k \in DOMAIN as |->
     LET stationMetar == mapGet(metarMap, as[k].icao)
     IN  AirportMETAR(as[k], stationMetar, mapGet(tafMap, as[k].icao),
                      IF stationMetar # NullRecord THEN parseFlightCategory(stationMetar)
                      ELSE UNKNOWN)]

Fulfilled(value) == [state |-> "fulfilled", value |-> value]
RejectedPromise == [state |-> "rejected"]

\* fetchMETARs(airports): Promise.all (lines 92-95) stands before the try block, so a
\* rejected METAR request rejects the call; everything thrown after it is caught
fetchMETARs(as, response, tafs) ==
  IF response = Rejected THEN RejectedPromise
  ELSE IF ~response.ok THEN Fulfilled(fallbackResult(as))
  ELSE IF response.body = Unparseable THEN Fulfilled(fallbackResult(as))
  ELSE IF forEachThrows(dataOf(response.body.v)) THEN Fulfilled(fallbackResult(as))
  ELSE Fulfilled(matchAirports(as, mapEntries(dataOf(response.body.v)), fetchTAFs(tafs)))

\* lines 27-30
fetchSingleAirport(airport, response, tafs) ==
  LET p == fetchMETARs(<<airport>>, response, tafs)
  IN  IF p = RejectedPromise THEN p ELSE Fulfilled(p.value[1])

MaxAirports == 2

KJFK == <<"K", "J", "F", "K">>
KBOS == <<"K", "B", "O", "S">>
Airport(icao) == [icao |-> icao]
\* an identifier in letters outside a-z, as a station reports it and in upper case
LowerStation == <<"ÿ", "ÿ">>
UpperStation == <<"U+0178", "U+0178">>
AirportLists ==
  SeqsUpTo({Airport(KJFK), Airport(KBOS)}, MaxAirports)
  \cup {<<Airport(UpperStation)>>, <<Airport(LowerStation), Airport(KJFK)>>}

ReportKJFK ==
  Metar(<<>>, <<>>, <<"K", "J", "F", "K", " ", "0", "1", "0", "6", "0", "0", "Z", " ", "1", "8", "0", "1", "0", "K", "T", " ", "1", "S", "M", " ", "O", "V", "C", "0", "0", "5">>, <<>>, Undefined, Undefined)
ReportKBOS ==
  Metar(<<>>, <<>>, <<"K", "B", "O", "S", " ", "0", "1", "0", "6", "0", "0", "Z", " ", "1", "8", "0", "1", "0", "K", "T", " ", "1", "0", "S", "M", " ", "F", "E", "W", "0", "0", "8">>, <<>>, Undefined, Undefined)
MetarElements ==
  {StationData(KJFK, <<>>, ReportKJFK), StationData(<<>>, <<"k", "b", "o", "s">>, ReportKBOS), NullRecord}
TafElements ==
  {StationData(KJFK, <<>>, Bulletin(ExampleBulletin, <<>>, <<>>))}

\* bodies: no JSON, null, a number, objects without data and with data null, 0, an
\* object and an array, and arrays
Bodies(elements) ==
  {Unparseable, Json(JsonNull), Json(JsonNumber(5)), Json(JsonObject(Undefined)),
   Json(JsonObject(JsonNull)), Json(JsonObject(JsonNumber(0))),
   Json(JsonObject(JsonObject(Undefined)))}
  \cup {Json(Array(d)) : d \in SeqsUpTo(elements, 2)}
  \cup {Json(JsonObject(Array(d))) : d \in {<<>>, <<StationData(KJFK, <<>>, ReportKJFK)>>}}
  \cup {Json(Array(<<StationData(LowerStation, <<>>, ReportKJFK)>>))}

MetarResponses ==
  {Rejected, HttpResponse(FALSE, Unparseable)}
  \cup {HttpResponse(TRUE, b) : b \in Bodies(MetarElements)}
TafResponses ==
  {Rejected, HttpResponse(FALSE, Unparseable)}
  \cup {HttpResponse(TRUE, Json(Array(<<e>>))) : e \in TafElements}

\* most calls of fetchMETARs in flight or settled
MaxCalls == 2

\* a call of fetchMETARs: where the function stands ("all" at the await of line 92,
\* "text" at line 101, "json" at line 106), whether fetch(...) of line 93 has settled,
\* where fetchTAFs stands ("fetch" at the await of line 45, "body" at line 49 or 54),
\* and the promise the call returned
Pending(at, metarFetch, tafs) ==
  [pc |-> at, fetch |-> metarFetch, tafs |-> tafs, state |-> "pending", value |-> NoRecord]
Settled(p) ==
  [pc |-> "settled", fetch |-> "settled", tafs |-> "returned", state |-> p.state,
   value |-> IF p = RejectedPromise THEN NoRecord ELSE p.value]

\* Promise.all of line 92 has both values: the function goes on to line 100 and waits
\* for the text of an error response or for the JSON of the body
afterPromiseAll(response) == Pending(IF response.ok THEN "json" ELSE "text", "settled", "returned")

InitFetch ==
  /\ ParserIdle
  /\ AppIdle
  /\ pc = "call"
  /\ airports \in AirportLists
  /\ metarResponse \in MetarResponses
  /\ tafResponse \in TafResponses
  /\ promises = <<>>

fetchUnchanged ==
  UNCHANGED <<pc, airports, metarResponse, tafResponse, appVars, metar, fcst, visibilityMi,
              ceilingFt, category, taf, now, periods, groupText, issueTime, resolved>>

\* fetchMETARs(airports) runs up to the await of line 92 and returns a pending promise:
\* both requests are on their way, fetchTAFs waits at line 45
FetchMETARs ==
  /\ Len(promises) < MaxCalls
  /\ promises' = Append(promises, Pending("all", "pending", "fetch"))
  /\ fetchUnchanged

\* fetch(...) of line 93 settles: a rejection rejects Promise.all and with it the call,
\* whatever fetchTAFs does; a response completes Promise.all when fetchTAFs has returned
MetarFetchSettles ==
  \E k \in DOMAIN promises :
    /\ promises[k].pc = "all"
    /\ promises[k].fetch = "pending"
    /\ promises' = [promises EXCEPT ![k] =
                     IF metarResponse = Rejected THEN Settled(RejectedPromise)
                     ELSE IF promises[k].tafs = "returned" THEN afterPromiseAll(metarResponse)
                     ELSE [@ EXCEPT !.fetch = "settled"]]
    /\ fetchUnchanged

\* the promise fetchTAFs returned is fulfilled with the map; Promise.all is complete
\* when fetch(...) has answered
tafsReturn(call) ==
  IF call.fetch = "settled" THEN afterPromiseAll(metarResponse)
  ELSE [call EXCEPT !.tafs = "returned"]

\* fetch(url) of line 45 settles: a rejection is caught at line 74, a response is
\* read at line 49 or 54
TafFetchSettles ==
  \E k \in DOMAIN promises :
    /\ promises[k].pc = "all"
    /\ promises[k].tafs = "fetch"
    /\ promises' = [promises EXCEPT ![k] =
                     IF tafResponse = Rejected THEN tafsReturn(@)
                     ELSE [@ EXCEPT !.tafs = "body"]]
    /\ fetchUnchanged

\* response.text() of line 49 or response.json() of line 54 settles and fetchTAFs
\* returns its map
TafBodySettles ==
  \E k \in DOMAIN promises :
    /\ promises[k].pc = "all"
    /\ promises[k].tafs = "body"
    /\ promises' = [promises EXCEPT ![k] = tafsReturn(@)]
    /\ fetchUnchanged

\* metarResponse.text() of line 101 or metarResponse.json() of line 106 settles: the
\* function runs to its end and its promise is fulfilled
MetarBodySettles ==
  \E k \in DOMAIN promises :
    /\ promises[k].pc \in {"text", "json"}
    /\ promises' = [promises EXCEPT ![k] =
                     Settled(fetchMETARs(airports, metarResponse, tafResponse))]
    /\ fetchUnchanged

NextFetch ==
  \/ FetchMETARs
  \/ MetarFetchSettles
  \/ TafFetchSettles
  \/ TafBodySettles
  \/ MetarBodySettles

SpecFetch == InitFetch /\ [][NextFetch]_vars

----------------------------------------------------------------------------
(* The App component, src/unnamed/part_001.  Time is Date.now() in           *)
(* milliseconds, counted from an origin that lies more than one refresh      *)
(* interval before the component mounts, as 1970 does.  A call of            *)
(* loadWeatherData or onRefreshAirport runs up to its first await in one     *)
(* step and stays in calls until its fetch settles.  loadWeatherData calls   *)
(* fetchMETARs before it yields (line 54); onRefreshAirport yields at the    *)
(* import of line 135, and calls fetchSingleAirport when it resumes.         *)

REFRESH_INTERVAL_MS == 300000

MaxIntervals == 1
MaxInFlight == 2

\* the clock is read every half interval
TickMs == REFRESH_INTERVAL_MS \div 2
MountTime == 2 * REFRESH_INTERVAL_MS
MaxClock == MountTime + MaxIntervals * REFRESH_INTERVAL_MS

\* import { AIRPORTS } from './data/airports' (line 9)
AIRPORTS == <<Airport(KJFK), Airport(KBOS)>>

\* lines 18-22: the state the component is constructed with
initialState ==
  [airportMETARs |-> <<>>, isLoading |-> TRUE, isRefreshing |-> FALSE,
   lastUpdate |-> NullRecord, error |-> NullRecord]

\* err.message, or 'Failed to load weather data'
ErrorMessage == [t |-> "message"]

\* a rate limit that never holds a call back
neverRateLimited(isRefresh, forceRefresh, timeSinceLastRefresh) == FALSE

\* line 35
rateLimited(isRefresh, forceRefresh, timeSinceLastRefresh) ==
  isRefresh /\ ~forceRefresh /\ timeSinceLastRefresh < REFRESH_INTERVAL_MS

\* line 127
airportRateLimited(timeSinceLastRefresh) == timeSinceLastRefresh < REFRESH_INTERVAL_MS

\* lines 43-50
beginLoad(a, isRefresh) ==
  IF isRefresh THEN [a EXCEPT !.isRefreshing = TRUE, !.error = NullRecord]
  ELSE [a EXCEPT !.isLoading = TRUE, !.error = NullRecord]

\* lines 57-58
loadResolved(a, data, at) == [a EXCEPT !.airportMETARs = data, !.lastUpdate = Num(at)]

\* lines 61-64
loadRejected(a) == [a EXCEPT !.error = ErrorMessage]

\* a finally block that forgets the refresh indicator
afterFinallyLoadingOnly(a) == [a EXCEPT !.isLoading = FALSE]

\* lines 65-68
afterFinally(a) == [a EXCEPT !.isLoading = FALSE, !.isRefreshing = FALSE]

\* lines 137-139: prev.map(am => am.airport.icao === icao ? updatedData : am)
replaceAirport(a, icao, updatedData) ==
  [a EXCEPT !.airportMETARs =
     [k \in DOMAIN @ |-> IF @[k].airport.icao = icao THEN updatedData ELSE @[k]]]

\* a call in flight: the function, its isRefresh argument, the Date.now() it read when
\* it began, the airport of a single refresh, and the await it yielded at: the import of
\* line 135 or a fetch (lines 54 and 136)
Call(fn, isRefresh, nowMs, icao) ==
  [fn |-> fn, isRefresh |-> isRefresh, now |-> nowMs, icao |-> icao,
   at |-> IF fn = "onRefreshAirport" THEN "import" ELSE "fetch"]

\* A handler waits at the import of line 135.  './services/metarService' is loaded
\* when App is (line 6), so the import is settled when it is made: the handler resumes
\* among the promise jobs that follow its yield, before the event loop takes another
\* task (a timer, a click, a later reading of the clock).
ImportPending == \E k \in DOMAIN calls : calls[k].at = "import"

Without(s, k) == SubSeq(s, 1, k - 1) \o SubSeq(s, k + 1, Len(s))

\* a timer that does not force its refresh
timerArgumentsUnforced == <<TRUE, FALSE>>

\* the arguments of the timer's call (line 84)
timerArguments == <<TRUE, TRUE>>

\* the arguments of the overlay's call (line 161)
overlayArguments == <<TRUE, FALSE>>

\* the exchanges a fetch of the App can end with
AppResponses ==
  {Rejected, HttpResponse(FALSE, Unparseable),
   HttpResponse(TRUE, Json(Array(<<StationData(KJFK, <<>>, ReportKJFK),
                                   StationData(KBOS, <<>>, ReportKBOS)>>)))}
AppTafResponse == HttpResponse(TRUE, Json(Array(<<>>)))

\* what fetchMETARs(AIRPORTS) can settle with
LoadOutcomes == {fetchMETARs(AIRPORTS, r, AppTafResponse) : r \in AppResponses}

\* what fetchSingleAirport(airport) can settle with, for every airport of AIRPORTS
AirportOutcomes ==
  [icao \in {AIRPORTS[k].icao : k \in DOMAIN AIRPORTS} |->
     {fetchSingleAirport(Airport(icao), r, AppTafResponse) : r \in AppResponses}]

\* the airports a marker can ask a refresh for: one of AIRPORTS, and one that is not
MarkerIcaos == {KJFK, <<"K", "X", "Y", "Z">>}

\* loadWeatherData(isRefresh, forceRefresh) up to its await (lines 30-54); manual says
\* that a user's request made the call
loadWeatherData(isRefresh, forceRefresh, manual) ==
  IF rateLimited(isRefresh, forceRefresh, clock - lastRefreshTimeRef)
  THEN UNCHANGED <<app, calls, lastManualStart>>
  ELSE /\ app' = beginLoad(app, isRefresh)
       /\ calls' = Append(calls, Call("loadWeatherData", isRefresh, clock, <<>>))
       /\ lastManualStart' = IF manual THEN clock ELSE lastManualStart

InitApp ==
  /\ ParserIdle
  /\ ServiceIdle
  /\ pc = "render"
  /\ clock = MountTime
  /\ app = initialState
  /\ lastRefreshTimeRef = 0
  /\ calls = <<>>
  /\ timer = 0
  /\ event = "none"
  /\ lastManualStart = -1

\* the two effects of the first render: the initial load (lines 73-76) and setInterval
\* (lines 79-90)
Mount ==
  /\ pc = "render"
  /\ pc' = "mounted"
  /\ loadWeatherData(FALSE, FALSE, FALSE)
  /\ timer' = clock + REFRESH_INTERVAL_MS
  /\ event' = "mount"
  /\ UNCHANGED <<clock, lastRefreshTimeRef, serviceVars, metar, fcst, visibilityMi,
                 ceilingFt, category, taf, now, periods, groupText, issueTime, resolved>>

\* the interval timer fires (lines 81-84)
TimerFires ==
  /\ pc = "mounted"
  /\ ~ImportPending
  /\ clock = timer
  /\ loadWeatherData(timerArguments[1], timerArguments[2], FALSE)
  /\ timer' = timer + REFRESH_INTERVAL_MS
  /\ event' = "timer"
  /\ UNCHANGED <<pc, clock, lastRefreshTimeRef, serviceVars, metar, fcst, visibilityMi,
                 ceilingFt, category, taf, now, periods, groupText, issueTime, resolved>>

\* the overlay's refresh button (lines 160-162)
OnRefresh ==
  /\ pc = "mounted"
  /\ ~ImportPending
  /\ Len(calls) < MaxInFlight
  /\ loadWeatherData(overlayArguments[1], overlayArguments[2], TRUE)
  /\ event' = "onRefresh"
  /\ UNCHANGED <<pc, clock, timer, lastRefreshTimeRef, serviceVars, metar, fcst,
                 visibilityMi, ceilingFt, category, taf, now, periods, groupText, issueTime,
                 resolved>>

\* a marker's refresh up to its first await (lines 122-135): the handler reads the
\* clock, returns when the rate limit holds or the airport is not one of AIRPORTS, and
\* yields at the import; no request has been made yet
OnRefreshAirport ==
  /\ pc = "mounted"
  /\ ~ImportPending
  /\ Len(calls) < MaxInFlight
  /\ \E icao \in MarkerIcaos :
       IF airportRateLimited(clock - lastRefreshTimeRef)
            \/ ~\E k \in DOMAIN AIRPORTS : AIRPORTS[k].icao = icao
       THEN UNCHANGED calls
       ELSE calls' = Append(calls, Call("onRefreshAirport", TRUE, clock, icao))
  /\ event' = "onRefreshAirport"
  /\ UNCHANGED <<pc, clock, timer, app, lastRefreshTimeRef, lastManualStart, serviceVars,
                 metar, fcst, visibilityMi, ceilingFt, category, taf, now, periods,
                 groupText, issueTime, resolved>>

\* the handler resumes from the import and calls fetchSingleAirport (lines 135-136):
\* the fetch of the marker's refresh begins, and the handler yields at its await
ImportSettles ==
  /\ pc = "mounted"
  /\ \E k \in DOMAIN calls :
       /\ calls[k].at = "import"
       /\ calls' = [calls EXCEPT ![k].at = "fetch"]
  /\ lastManualStart' = clock
  /\ event' = "importSettles"
  /\ UNCHANGED <<pc, clock, timer, app, lastRefreshTimeRef, serviceVars, metar, fcst,
                 visibilityMi, ceilingFt, category, taf, now, periods, groupText, issueTime,
                 resolved>>

\* the fetch of a loadWeatherData call settles (lines 52-69)
LoadSettles ==
  /\ pc = "mounted"
  /\ \E k \in DOMAIN calls :
       /\ calls[k].fn = "loadWeatherData"
       /\ \E p \in LoadOutcomes :
           /\ IF p.state = "fulfilled"
              THEN /\ app' = afterFinally(loadResolved(app, p.value, clock))
                   /\ lastRefreshTimeRef' = calls[k].now
              ELSE /\ app' = afterFinally(loadRejected(app))
                   /\ UNCHANGED lastRefreshTimeRef
           /\ calls' = Without(calls, k)
  /\ event' = "loadSettles"
  /\ UNCHANGED <<pc, clock, timer, lastManualStart, serviceVars, metar, fcst,
                 visibilityMi, ceilingFt, category, taf, now, periods, groupText, issueTime,
                 resolved>>

\* the fetch of a marker's refresh settles (lines 136-140); a rejection is not caught
AirportSettles ==
  /\ pc = "mounted"
  /\ \E k \in DOMAIN calls :
       /\ calls[k].fn = "onRefreshAirport"
       /\ calls[k].at = "fetch"
       /\ \E p \in AirportOutcomes[calls[k].icao] :
           /\ IF p.state = "fulfilled"
              THEN /\ app' = replaceAirport(app, calls[k].icao, p.value)
                   /\ lastRefreshTimeRef' = calls[k].now
              ELSE UNCHANGED <<app, lastRefreshTimeRef>>
           /\ calls' = Without(calls, k)
  /\ event' = "airportSettles"
  /\ UNCHANGED <<pc, clock, timer, lastManualStart, serviceVars, metar, fcst,
                 visibilityMi, ceilingFt, category, taf, now, periods, groupText, issueTime,
                 resolved>>

\* time passes; a timer that is due fires first
Tick ==
  /\ pc = "mounted"
  /\ ~ImportPending
  /\ clock < timer
  /\ clock + TickMs <= MaxClock
  /\ clock' = clock + TickMs
  /\ event' = "tick"
  /\ UNCHANGED <<pc, app, lastRefreshTimeRef, calls, timer, lastManualStart, serviceVars,
                 metar, fcst, visibilityMi, ceilingFt, category, taf, now, periods,
                 groupText, issueTime, resolved>>

NextApp ==
  \/ Mount
  \/ TimerFires
  \/ OnRefresh
  \/ OnRefreshAirport
  \/ ImportSettles
  \/ LoadSettles
  \/ AirportSettles
  \/ Tick

SpecApp == InitApp /\ [][NextApp]_vars

\* an import that has been made settles, and a fetch that has begun settles: the
\* promise of fetchMETARs or fetchSingleAirport is fulfilled or rejected
SpecAppLive ==
  SpecApp /\ WF_vars(ImportSettles) /\ WF_vars(LoadSettles) /\ WF_vars(AirportSettles)

----------------------------------------------------------------------------
(* Claims on the classifiers *)

\* the category the FAA/NWS table gives a visibility (thousandths of a mile)
VisibilityTable(v) ==
  IF v = Infinity THEN VFR
  ELSE IF v.v < 1000 THEN LIFR
  ELSE IF v.v < 3000 THEN IFR
  ELSE IF v.v < 5000 THEN MVFR
  ELSE VFR

\* the category the FAA/NWS table gives a ceiling (feet, or unbounded)
CeilingTable(c) ==
  IF c = Infinity THEN VFR
  ELSE IF c.v < 500 THEN LIFR
  ELSE IF c.v < 1000 THEN IFR
  ELSE IF c.v < 3000 THEN MVFR
  ELSE VFR

IsValue(x) == IsNum(x) \/ x = Infinity

\* C1: with a visibility and no ceiling, both classifiers return LIFR below 1 mile,
\* IFR from 1 to below 3, MVFR from 3 to below 5 and VFR from 5 miles up.
C1_VisibilityOnly ==
  (pc = "return" /\ IsValue(visibilityMi) /\ ceilingFt = Undefined)
    => category = VisibilityTable(visibilityMi)

\* a report with visibility exactly 3 miles and no cloud information returned MVFR
C1_Witness ==
  /\ pc = "return"
  /\ metar # NoRecord
  /\ visibilityMi = Num(3000)
  /\ ceilingFt = Undefined
  /\ category = MVFR

\* C2: with a ceiling and no visibility, both classifiers return LIFR below 500 ft,
\* IFR from 500 to below 1000, MVFR from 1000 to below 3000 and VFR from 3000 ft up
\* or when the ceiling is unbounded.
C2_CeilingOnly ==
  (pc = "return" /\ IsValue(ceilingFt) /\ visibilityMi = Undefined)
    => category = CeilingTable(ceilingFt)

\* a forecast with ceiling 999 ft and no visibility returned IFR
C2_Witness ==
  /\ pc = "return"
  /\ fcst # NoRecord
  /\ visibilityMi = Undefined
  /\ ceilingFt = Num(999)
  /\ category = IFR

\* the rank of a category on LIFR < IFR < MVFR < VFR
Rank(c) == CHOOSE r \in 1..4 : <<LIFR, IFR, MVFR, VFR>>[r] = c

\* C3: with both a visibility and a ceiling, each classifier returns the worse of
\* the visibility's category and the ceiling's category.
C3_WorseOfTwo ==
  (pc = "return" /\ IsValue(visibilityMi) /\ IsValue(ceilingFt))
    => /\ category \in {VisibilityTable(visibilityMi), CeilingTable(ceilingFt)}
       /\ Rank(category) <= Rank(VisibilityTable(visibilityMi))
       /\ Rank(category) <= Rank(CeilingTable(ceilingFt))

\* a report with 10 miles under a 900 ft overcast returned IFR, the ceiling's category
C3_Witness ==
  /\ pc = "return"
  /\ metar # NoRecord
  /\ visibilityMi = Num(10000)
  /\ ceilingFt = Num(900)
  /\ category = IFR

\* C4: whatever fltCat or flightCategory string the record carries, parseFlightCategory
\* returns one of VFR, MVFR, IFR, LIFR, UNKNOWN.
C4_CategoryInEnum ==
  (pc = "return" /\ metar # NoRecord) => category \in FlightCategoryValues

\* a category string whose upper case is one of the five values
ValidCategory(x) == x # <<>> /\ toUpperCase(x) \in FlightCategoryValues

\* C5: a record that carries an upstream category whose upper case is one of the five
\* values gets exactly that value, whatever its visibility, ceiling and raw text.
C5_ExplicitShortCircuit ==
  /\ (pc = "return" /\ metar # NoRecord
        /\ (ValidCategory(metar.fltCat) \/ ValidCategory(metar.flightCategory)))
       => category \in {toUpperCase(x) :
                          x \in {y \in {metar.fltCat, metar.flightCategory} :
                                   ValidCategory(y)}}
  /\ (pc = "return" /\ fcst # NoRecord /\ ValidCategory(fcst.flightCategory))
       => category = toUpperCase(fcst.flightCategory)

\* the report carries no explicit category and no structured visibility
TextOnlyReport ==
  /\ metar # NoRecord
  /\ metar.fltCat = <<>>
  /\ metar.flightCategory = <<>>
  /\ categoryMatch(rawTextForVis(metar)) = <<>>
  /\ metar.visibilityStatuteMi = Undefined
  /\ metar.visib = Undefined

\* the group g stands in the text s as a word of its own
HasGroup(s, g) ==
  \E i \in Positions(s) :
    /\ LitAt(s, i, g)
    /\ At(s, i - 1) = "" \/ IsSpace(At(s, i - 1))
    /\ At(s, i + Len(g)) = "" \/ IsSpace(At(s, i + Len(g)))

\* C6 as stated: a report whose text contains OVC005 and 1SM classifies as LIFR.
C6_Original ==
  (pc = "return" /\ TextOnlyReport
     /\ HasGroup(metar.rawOb, <<"O", "V", "C", "0", "0", "5">>)
     /\ HasGroup(metar.rawOb, <<"1", "S", "M">>))
    => category = LIFR

\* C6 amended: a report whose text has 1SM as its statute-mile group and OVC005 as its
\* lowest BKN/OVC/VV layer is read as 1 mile under 500 ft and classifies as IFR.
C6_BoundaryIsIFR ==
  (pc = "return" /\ TextOnlyReport
     /\ HasGroup(metar.rawOb, <<"O", "V", "C", "0", "0", "5">>)
     /\ HasGroup(metar.rawOb, <<"1", "S", "M">>)
     /\ visMatch(metar.rawOb) = 1000
     /\ \A h \in ceilings(metar.rawOb) : h >= 500)
    => /\ visibilityMi = Num(1000)
       /\ ceilingFt = Num(500)
       /\ category = IFR

\* the report KXYZ 010600Z 18010KT 1SM OVC005 has been classified
C6_Witness ==
  /\ pc = "return"
  /\ TextOnlyReport
  /\ metar.rawOb = JoinWords(<<ReportPrefix, <<"1", "S", "M">>, <<"O", "V", "C", "0", "0", "5">>>>)
  /\ category = IFR

\* C7: a fractional statute-mile group is decoded to its fractional value, and a
\* report with 1/2SM, 1/4SM or 3/4SM and no ceiling classifies as LIFR.
C7_FractionalVisibility ==
  \A g \in {<<<<"1", "/", "2", "S", "M">>, 500>>,
            <<<<"1", "/", "4", "S", "M">>, 250>>,
            <<<<"3", "/", "4", "S", "M">>, 750>>} :
    (pc = "return" /\ TextOnlyReport /\ HasGroup(metar.rawOb, g[1])
       /\ ceilingFt = Undefined)
      => visibilityMi = Num(g[2]) /\ category = LIFR

\* the text carries no visibility token, no cloud group and no clear-sky marker
NoWeatherIn(s) ==
  /\ ~Includes(s, <<"S", "M">>)
  /\ ~\E i \in Positions(s) : visMetersMatchAt(s, i)
  /\ \A w \in {BKN, OVC, VV, SCT, FEW, CLR, SKC, CAVOK} : ~Includes(s, w)

\* C9: a report with no cloud group, no visibility (structured or in the text), no
\* clear-sky marker and no explicit category classifies as UNKNOWN, also when its raw
\* text is empty or absent.
C9_NoDataUnknown ==
  (pc = "return" /\ TextOnlyReport
     /\ NoWeatherIn(toUpperCase(metar.rawOb))
     /\ NoWeatherIn(toUpperCase(metar.rawText)))
    => category = UNKNOWN

\* the report KXYZ 010600Z 18010KT 22/18 A2992 has been classified
C9_Witness ==
  /\ pc = "return"
  /\ TextOnlyReport
  /\ metar.rawOb = JoinWords(<<ReportPrefix, ReportEnd>>)
  /\ visibilityMi = Undefined
  /\ ceilingFt = Undefined
  /\ category = UNKNOWN

\* C8 as stated: the ceiling of a forecast period is the least height over all the BKN,
\* OVC and VV layer groups of its text, whatever their order.
C8_MinimumCeiling ==
  pc = "return" =>
    \A k \in DOMAIN periods :
      ceilings(periods[k].rawText) # {} =>
        periods[k].ceilingFt = Num(MinOf(ceilings(periods[k].rawText)))

\* C10 as stated: every period returned by decodeTAFPeriods carries one of the five
\* FlightCategory values; a period without data carries UNKNOWN.
C10_EveryPeriodClassified ==
  pc = "return" =>
    \A k \in DOMAIN periods : periods[k].flightCategory \in FlightCategoryValues

\* the text has no visibility token: no SM and no four-digit metres group
NoVisibilityToken(s) ==
  /\ ~Includes(s, <<"S", "M">>)
  /\ ~\E i \in Positions(s) : visMetersMatchAt(s, i)

\* C11 as stated: a report containing CLR, with no visibility token, no structured
\* visibility and no explicit category, classifies as VFR.
C11_Original ==
  (pc = "return" /\ TextOnlyReport
     /\ HasGroup(rawTextForVis(metar), CLR)
     /\ NoVisibilityToken(rawTextForVis(metar)))
    => category = VFR

\* C11 amended: a report containing CLR and no BKN, OVC or VV layer with a height, with
\* no visibility token, no structured visibility and no explicit category, classifies
\* as VFR.
C11_ClearSkyIsVFR ==
  (pc = "return" /\ TextOnlyReport
     /\ HasGroup(rawTextForVis(metar), CLR)
     /\ NoVisibilityToken(rawTextForVis(metar))
     /\ ceilings(rawTextForVis(metar)) = {})
    => category = VFR

\* the report KXYZ 010600Z 18010KT CLR 22/18 A2992 has been classified: no visibility,
\* unlimited ceiling
C11_Witness ==
  /\ pc = "return"
  /\ TextOnlyReport
  /\ metar.rawOb = JoinWords(<<ReportPrefix, CLR, ReportEnd>>)
  /\ visibilityMi = Undefined
  /\ ceilingFt = Infinity
  /\ category = VFR

\* the example bulletin has been decoded
ExampleDecoded == pc = "return" /\ taf # NoRecord /\ taf # NullRecord /\ taf.rawTAF = ExampleBulletin

\* C12 as stated: the example bulletin decodes to exactly two periods, the second with
\* visibility 3.0 mi, ceiling 1500 ft and category IFR.
C12_Original ==
  ExampleDecoded =>
    /\ Len(periods) = 2
    /\ periods[2].visibilityMi = Num(Miles(3))
    /\ periods[2].ceilingFt = Num(1500)
    /\ periods[2].flightCategory = IFR

\* C12 amended: the example bulletin decodes to exactly two periods, the second with
\* visibility 3.0 mi, ceiling 1500 ft and category MVFR.
C12_ExampleIsMVFR ==
  ExampleDecoded =>
    /\ Len(periods) = 2
    /\ periods[2].visibilityMi = Num(Miles(3))
    /\ periods[2].ceilingFt = Num(1500)
    /\ periods[2].flightCategory = MVFR

\* the example bulletin has been decoded into an initial period and the FM012000 period
C12_Witness ==
  /\ ExampleDecoded
  /\ Len(periods) = 2
  /\ StartsWith(periods[2].rawText, <<"F", "M", "0", "1", "2", "0", "0", "0">>)
  /\ periods[1].validTimeTo = periods[2].validTimeFrom

\* the query has answered for a bulletin with at least one period
Answered == pc = "return" /\ taf # NoRecord /\ ~noForecasts(taf)

\* the window of a period in seconds; a period without a start starts at 0
StartOf(f) == IF IsNum(f.validTimeFrom) THEN f.validTimeFrom.v ELSE 0
HasEnd(f) == IsNum(f.validTimeTo) /\ f.validTimeTo.v # 0

\* start >= now, or start <= now <= end
Selectable(f) ==
  \/ StartOf(f) >= nowSeconds
  \/ StartOf(f) <= nowSeconds /\ (HasEnd(f) => nowSeconds <= f.validTimeTo.v)

\* C13 as stated: the query returns the category of the first period, in sequence order,
\* with start >= now or start <= now <= end; no later period is chosen.
C13_FirstSelectable ==
  (Answered /\ \E k \in DOMAIN taf.fcsts.v : Selectable(taf.fcsts.v[k])) =>
    category =
      determineFlightCategoryFromForecast(
        taf.fcsts.v[MinOf({k \in DOMAIN taf.fcsts.v : Selectable(taf.fcsts.v[k])})])

\* C14 as stated: with now earlier than the start of every period, the query returns
\* the first period.
C14_BeforeValidity ==
  (Answered /\ \A k \in DOMAIN taf.fcsts.v : StartOf(taf.fcsts.v[k]) > nowSeconds) =>
    category = determineFlightCategoryFromForecast(taf.fcsts.v[1])

\* C15: when no period has start >= now or start <= now <= end, the query returns the
\* category of the last period of the sequence.
C15_FallbackToLast ==
  (Answered /\ \A k \in DOMAIN taf.fcsts.v : ~Selectable(taf.fcsts.v[k])) =>
    category = determineFlightCategoryFromForecast(taf.fcsts.v[Len(taf.fcsts.v)])

\* every period of a two-period bulletin has ended, the two periods have different
\* categories, and the query has answered with the category of the second
C15_Witness ==
  /\ Answered
  /\ Len(taf.fcsts.v) = 2
  /\ \A k \in 1..2 : HasEnd(taf.fcsts.v[k]) /\ taf.fcsts.v[k].validTimeTo.v < nowSeconds
  /\ determineFlightCategoryFromForecast(taf.fcsts.v[1]) = VFR
  /\ determineFlightCategoryFromForecast(taf.fcsts.v[2]) = IFR
  /\ category = IFR

\* C16: for a missing bulletin, a bulletin without a period list and a bulletin with an
\* empty period list the query returns null.
C16_NoPeriodsNull ==
  (pc = "return" /\ taf # NoRecord /\ noForecasts(taf)) => category = Null

\* the query has answered null for a bulletin whose period list is empty
C16_Witness ==
  /\ pc = "return"
  /\ taf # NoRecord
  /\ taf # NullRecord
  /\ taf.fcsts = Array(<<>>)
  /\ category = Null

\* a time group has been resolved against an issue date
Resolved == pc = "return" /\ groupText # <<>>

\* the day of the month a group names, and its time of day in minutes
GroupDay ==
  IF Len(groupText) = 4 THEN ParseInt(groupText, 1, 2)
  ELSE IF StartsWith(groupText, <<"F", "M">>) THEN ParseInt(groupText, 3, 2)
  ELSE ParseInt(groupText, 7, 2)
GroupTimeOfDay ==
  IF Len(groupText) = 4 THEN Hours(ParseInt(groupText, 3, 2))
  ELSE IF StartsWith(groupText, <<"F", "M">>)
       THEN Hours(ParseInt(groupText, 5, 2)) + ParseInt(groupText, 7, 2)
  ELSE Hours(ParseInt(groupText, 9, 2))

IssueYear == getUTCFullYear(issueTime)
IssueMonth == getUTCMonth(issueTime)
IssueDay == getUTCDate(issueTime)

\* day d exists in the month that lies `shift` months from the issue month
DayExists(d, shift) ==
  d >= 1 /\ d <= MakeDay(IssueYear, IssueMonth + shift + 1, 1) - MakeDay(IssueYear, IssueMonth + shift, 1)

\* C17: a group whose day of the month is more than 15 smaller than the issue day is
\* resolved in the month after the issue month, in the next year when issued in December.
C17_RollForward ==
  (Resolved /\ IssueDay - GroupDay > 15) =>
    /\ getUTCMonth(resolved) = (IssueMonth + 1) % 12
    /\ getUTCFullYear(resolved) = IssueYear + (IF IssueMonth = 11 THEN 1 ELSE 0)

\* issued 30 December 2024, the group 0212 has been resolved to 2 January 2025 12:00
C17_Witness ==
  /\ Resolved
  /\ issueTime = DateUTC(2024, 11, 30, 5, 30)
  /\ groupText = <<"0", "2", "1", "2">>
  /\ resolved = DateUTC(2025, 0, 2, 12, 0)

\* C18 as stated: when day d exists in the issue month and in the months before and
\* after it, the group is resolved on day d, and no occurrence of day d in those months
\* is nearer to the issue date.
C18_NearestOccurrence ==
  (Resolved /\ \A shift \in {-1, 0, 1} : DayExists(GroupDay, shift)) =>
    /\ getUTCDate(resolved - GroupTimeOfDay) = GroupDay
    /\ \A shift \in {-1, 0, 1} :
         LET distance(day) == IF day >= Day(issueTime) THEN day - Day(issueTime)
                              ELSE Day(issueTime) - day
         IN  distance(Day(resolved - GroupTimeOfDay))
               <= distance(MakeDay(IssueYear, IssueMonth + shift, GroupDay))

\* the month the 15-day rule chooses, counted from the issue month
MonthShift(d) == IF IssueDay - d > 15 THEN 1 ELSE IF d - IssueDay > 15 THEN -1 ELSE 0

\* C18 amended: the group is resolved on day d of the issue month when d is at most 15
\* days from the issue day, of the following month when d is more than 15 smaller, of the
\* preceding month when d is more than 15 larger, provided day d exists in the issue
\* month and in the month chosen and the time of day is before 24:00.
C18_FifteenDayRule ==
  (Resolved /\ DayExists(GroupDay, 0) /\ DayExists(GroupDay, MonthShift(GroupDay))
     /\ GroupTimeOfDay < Hours(24)) =>
    resolved =
      DateUTC(IssueYear, IssueMonth + MonthShift(GroupDay), GroupDay, 0, 0) + GroupTimeOfDay

\* issued 1 March 2024, the group FM172330 has been resolved to 17 February 2024 23:30
C18_Witness ==
  /\ Resolved
  /\ issueTime = DateUTC(2024, 2, 1, 5, 30)
  /\ groupText = <<"F", "M", "1", "7", "2", "3", "3", "0">>
  /\ resolved = DateUTC(2024, 1, 17, 23, 30)

\* a bulletin with text has been decoded
Decoded == pc = "return" /\ taf # NoRecord /\ taf # NullRecord /\ bulletinText(taf) # <<>>

\* C19 as stated: no period returned by decodeTAFPeriods ends before it starts.
C19_WindowConsistent ==
  Decoded => \A k \in DOMAIN periods : periods[k].validTimeFrom <= periods[k].validTimeTo

\* C20: the periods returned by decodeTAFPeriods are in the order of their start times,
\* also when the change groups of the text are not.
C20_SortedByStart ==
  Decoded =>
    \A j, k \in DOMAIN periods : j < k => periods[j].validTimeFrom <= periods[k].validTimeFrom

\* a bulletin whose text has FM020300 before FM012000 has been decoded, and the
\* FM012000 period comes first in the result
C20_Witness ==
  /\ Decoded
  /\ Len(periods) = 3
  /\ typeStrOf(bulletinText(taf), 1) = <<"F", "M", "0", "2", "0", "3", "0", "0">>
  /\ typeStrOf(bulletinText(taf), 2) = <<"F", "M", "0", "1", "2", "0", "0", "0">>
  /\ StartsWith(periods[2].rawText, <<"F", "M", "0", "1", "2", "0", "0", "0">>)
  /\ StartsWith(periods[3].rawText, <<"F", "M", "0", "2", "0", "3", "0", "0">>)
  /\ periods[2].validTimeFrom < periods[3].validTimeFrom

\* a decode that follows an earlier decode of the same bulletin
SecondDecode == pc = "call" /\ pc' = "return" /\ periods # <<>> /\ taf' = taf

\* C21 as stated: a second decode of the same bulletin gives the same periods as the
\* first, whatever the wall clock reads at either decode.
C21_DecodeIgnoresClock == [][SecondDecode => periods' = periods]_vars

\* the text of the decoded bulletin and the number of its change groups
DecodedText == bulletinText(taf)
NumGroups == Len(periodMatches(DecodedText))

\* the k-th change group of the decoded bulletin is an FM group
IsFM(k) == StartsWith(typeStrOf(DecodedText, k), <<"F", "M">>)

\* the FM groups after the k-th group, in the order of the text
LaterFM(k) == {j \in (k + 1)..NumGroups : IsFM(j)}

\* the end of the validity of the decoded bulletin
ValidityEnd == validToOf(DecodedText, issueDateOf(DecodedText))

\* the start written in the k-th change group
GroupStart(k) ==
  parsePeriodStart(typeStrOf(DecodedText, k), issueDateOf(DecodedText),
                   validFromOf(DecodedText, issueDateOf(DecodedText)))

\* C22: the period of every FM group ends at the start of the nearest FM group after it
\* in the text, whatever lies in between, and at the end of the bulletin's validity when
\* no FM group follows.
C22_EndOfFMPeriod ==
  Decoded =>
    \A k \in 1..NumGroups : IsFM(k) =>
      \E p \in DOMAIN periods :
        /\ periods[p].rawText = periodText(DecodedText, k)
        /\ periods[p].validTimeFrom = GroupStart(k)
        /\ periods[p].validTimeTo =
             IF LaterFM(k) # {} THEN GroupStart(MinOf(LaterFM(k))) ELSE ValidityEnd

\* the bulletin with BECMG between two FM groups has been decoded: the first FM period
\* ends where the second begins, and the second at the end of the validity
C22_Witness ==
  /\ Decoded
  /\ DecodedText = InterleavedBulletin
  /\ NumGroups = 3 /\ IsFM(1) /\ ~IsFM(2) /\ IsFM(3)
  /\ Len(periods) = 4
  /\ \E p, q \in DOMAIN periods :
       /\ periods[p].rawText = periodText(DecodedText, 1)
       /\ periods[q].rawText = periodText(DecodedText, 3)
       /\ periods[p].validTimeTo = periods[q].validTimeFrom
       /\ periods[p].validTimeFrom < periods[p].validTimeTo
       /\ periods[q].validTimeTo = ValidityEnd

\* the start of the validity of the decoded bulletin
ValidityStart == validFromOf(DecodedText, issueDateOf(DecodedText))

\* C23: the initial period runs from the start of the bulletin's validity to the start
\* of the first change group of any type, and to the end of the validity when the
\* bulletin has no change group.
C23_InitialPeriod ==
  Decoded =>
    \E p \in DOMAIN periods :
      /\ periods[p].rawText = periodText(DecodedText, 0)
      /\ periods[p].validTimeFrom = ValidityStart
      /\ periods[p].validTimeTo = IF NumGroups > 0 THEN GroupStart(1) ELSE ValidityEnd

\* a bulletin whose first change group is a TEMPO group has been decoded: its initial
\* period starts with the validity, after the issue time, and ends where TEMPO begins
C23_Witness ==
  /\ Decoded
  /\ NumGroups > 0
  /\ StartsWith(typeStrOf(DecodedText, 1), <<"T", "E", "M", "P", "O">>)
  /\ issueDateOf(DecodedText) < ValidityStart
  /\ \E p \in DOMAIN periods :
       /\ periods[p].rawText = periodText(DecodedText, 0)
       /\ periods[p].validTimeFrom = ValidityStart
       /\ periods[p].validTimeTo = GroupStart(1)
       /\ periods[p].validTimeFrom < periods[p].validTimeTo
       /\ periods[p].validTimeTo < ValidityEnd

\* a word of the text s begins at index i with the letters of type
GroupOfTypeAt(s, i, type) ==
  LitAt(s, i, type) /\ (At(s, i - 1) = "" \/ IsSpace(At(s, i - 1)))

\* the text has an SCT or FEW group, written as the type and three digits, and no BKN,
\* OVC or VV group
OnlyScatteredOrFew(s) ==
  /\ \E i \in Positions(s), type \in {SCT, FEW} :
       /\ GroupOfTypeAt(s, i, type)
       /\ \A k \in 0..2 : IsDigit(At(s, i + 3 + k))
       /\ At(s, i + 6) = "" \/ IsSpace(At(s, i + 6))
  /\ ~\E i \in Positions(s), type \in {BKN, OVC, VV} : GroupOfTypeAt(s, i, type)

\* C25: a report or forecast period whose only cloud groups are SCT or FEW, at any
\* height, gets the category of its visibility alone; a report without a visibility
\* is VFR, and a period without one is classified as a period without clouds.
C25_ScatteredIsNoCeiling ==
  /\ (pc = "return" /\ metar # NoRecord /\ explicitCategory(metar) = <<>>
        /\ OnlyScatteredOrFew(rawTextForVis(metar)))
       => category = IF IsValue(visibilityMi) THEN VisibilityTable(visibilityMi) ELSE VFR
  /\ (pc = "return" /\ fcst # NoRecord /\ forecastExplicitCategory(fcst) = <<>>
        /\ OnlyScatteredOrFew(forecastRawText(fcst)))
       => /\ fcst.ceiling = Undefined
          /\ category = IF IsValue(visibilityMi) THEN VisibilityTable(visibilityMi)
                        ELSE forecastNoData(fcst)

\* a report with 10SM and FEW008 as its only cloud group has been classified VFR
C25_Witness ==
  /\ pc = "return"
  /\ TextOnlyReport
  /\ HasGroup(metar.rawOb, <<"F", "E", "W", "0", "0", "8">>)
  /\ HasGroup(metar.rawOb, <<"1", "0", "S", "M">>)
  /\ OnlyScatteredOrFew(rawTextForVis(metar))
  /\ visibilityMi = Num(Miles(10))
  /\ ceilingFt = Infinity
  /\ category = VFR

\* the texts of a sequence of periods, one after the other
RECURSIVE TextOf(_)
TextOf(ps) == IF ps = <<>> THEN <<>> ELSE Head(ps).rawText \o TextOf(Tail(ps))

\* the orders in which n periods can be taken
Orders(n) == {f \in [1..n -> 1..n] : \A i, j \in 1..n : f[i] = f[j] => i = j}

\* C26: a bulletin with k change groups decodes to k + 1 periods, and their texts, taken
\* in the order of the text, are pieces of the bulletin that follow one another and
\* make up the whole of it.
C26_SegmentsPartitionText ==
  Decoded =>
    /\ Len(periods) = NumGroups + 1
    /\ \E f \in Orders(Len(periods)) :
         TextOf([i \in 1..Len(periods) |-> periods[f[i]]]) = DecodedText

\* the bulletin with three change groups has been decoded into four periods, none of
\* them empty, whose texts make up the bulletin
C26_Witness ==
  /\ Decoded
  /\ DecodedText = InterleavedBulletin
  /\ Len(periods) = 4
  /\ \A p \in DOMAIN periods : periods[p].rawText # <<>>
  /\ TextOf(periods) = DecodedText

\* the METAR request failed: it was rejected, its status is not OK, or its body is no JSON
MetarRequestFailed ==
  \/ metarResponse = Rejected
  \/ ~metarResponse.ok
  \/ metarResponse.body = Unparseable

\* C27 as stated: when the METAR request is rejected, has a status that is not OK or a
\* body that cannot be parsed, fetchMETARs resolves with one entry per requested airport,
\* in the order of the request, each with metar null, taf null and category UNKNOWN.
C27_ErrorFallback ==
  \A c \in DOMAIN promises :
    (promises[c].pc = "settled" /\ MetarRequestFailed) =>
      /\ promises[c].state = "fulfilled"
      /\ Len(promises[c].value) = Len(airports)
      /\ \A k \in DOMAIN airports :
           /\ promises[c].value[k].airport = airports[k]
           /\ promises[c].value[k].metar = NullRecord
           /\ promises[c].value[k].taf = NullRecord
           /\ promises[c].value[k].flightCategory = UNKNOWN

\* a step of the interval timer
TimerStep == pc = "mounted" /\ timer' # timer

\* the step begins a fetch for a loadWeatherData call that read the clock now
BeginsLoad ==
  /\ Len(calls') = Len(calls) + 1
  /\ calls'[Len(calls')].fn = "loadWeatherData"
  /\ calls'[Len(calls')].now = clock

\* C24: every firing of the interval timer begins a fetch, whatever the time since the
\* last successful load.
C24_TimerAlwaysFetches == [][TimerStep => BeginsLoad]_vars

\* the timer has fired less than an interval after the start of the last successful
\* load, and its fetch is in flight
C24_Witness ==
  /\ event = "timer"
  /\ lastRefreshTimeRef > 0
  /\ clock - lastRefreshTimeRef < REFRESH_INTERVAL_MS
  /\ calls # <<>>
  /\ calls[Len(calls)] = Call("loadWeatherData", TRUE, clock, <<>>)
  /\ app.isRefreshing

\* a step of the overlay's refresh handler
OverlayStep == pc = "mounted" /\ event' = "onRefresh"

\* C28 as stated: a manual refresh requested less than REFRESH_INTERVAL_MS after the last
\* successful load, the time lastUpdate holds, begins no fetch and changes neither the
\* React state nor the last-refresh timestamp.
C28_Original ==
  [][(OverlayStep /\ app.lastUpdate # NullRecord
        /\ clock - app.lastUpdate.v < REFRESH_INTERVAL_MS)
       => UNCHANGED <<app, calls, lastRefreshTimeRef>>]_vars

\* C28 amended: a manual refresh requested less than REFRESH_INTERVAL_MS after the start
\* of the call whose success was recorded last, the time lastRefreshTimeRef holds,
\* begins no fetch and changes neither the React state nor the last-refresh timestamp.
C28_RateLimitedLeavesState ==
  [][(OverlayStep /\ clock - lastRefreshTimeRef < REFRESH_INTERVAL_MS)
       => UNCHANGED <<app, calls, lastRefreshTimeRef>>]_vars

\* the overlay's refresh has been asked for half an interval after a successful load
\* and nothing is in flight
C28_Witness ==
  /\ event = "onRefresh"
  /\ lastRefreshTimeRef > 0
  /\ clock - lastRefreshTimeRef = TickMs
  /\ calls = <<>>
  /\ ~app.isRefreshing /\ ~app.isLoading
  /\ app.lastUpdate # NullRecord

\* a step in which a user's request begins a fetch: the overlay's handler calls
\* fetchMETARs, or a marker's handler resumes and calls fetchSingleAirport
ManualFetchStep ==
  /\ pc = "mounted"
  /\ \/ event' = "onRefresh" /\ Len(calls') = Len(calls) + 1
     \/ event' = "importSettles" /\ calls' # calls

\* C29 as stated: two fetches begun by manual refresh requests are never less than
\* REFRESH_INTERVAL_MS apart.
C29_ManualFetchesApart ==
  [][(ManualFetchStep /\ lastManualStart # -1)
       => clock - lastManualStart >= REFRESH_INTERVAL_MS]_vars

\* a loadWeatherData call is in flight
LoadInFlight == \E k \in DOMAIN calls : calls[k].fn = "loadWeatherData"

\* C30: the completion of a loadWeatherData call, by success or by failure, leaves
\* isLoading and isRefreshing false, and every call in flight leads to that.
C30_IndicatorsCleared ==
  /\ [][(pc = "mounted" /\ event' = "loadSettles")
          => (~app'.isLoading /\ ~app'.isRefreshing)]_vars
  /\ LoadInFlight ~> (~app.isLoading /\ ~app.isRefreshing)

\* a refresh has failed and the indicators are off
C30_Witness ==
  /\ event = "loadSettles"
  /\ app.error = ErrorMessage
  /\ app.lastUpdate # NullRecord
  /\ ~app.isLoading /\ ~app.isRefreshing
  /\ calls = <<>>

====
